---- MODULE Spec2Model ----
(***************************************************************************)
(* monie-utils: the monetary arithmetic, allocation and amortization       *)
(* engine.  Every exported operation is a pure function over JavaScript    *)
(* numbers, so the model has two layers:                                   *)
(*                                                                         *)
(*  1. JavaScript `number` arithmetic: IEEE-754 binary64 with round to     *)
(*     nearest, ties to even, modelled exactly.  A number is a record      *)
(*     [k, s, m, e]: kind ("num", "inf", "nan"), sign, an odd natural      *)
(*     significand m and an exponent e, standing for s * m * 2^e.  The     *)
(*     significand is a natural of up to 53 bits (more in intermediate     *)
(*     results), kept as a little-endian sequence of base-2^12 limbs.      *)
(*     Subnormal results and the sign of zero are not modelled: no input   *)
(*     of the model comes near 2^-1022, and the code never inspects the    *)
(*     sign of a zero.                                                     *)
(*                                                                         *)
(*  2. The library's functions, translated statement by statement, and a   *)
(*     call harness: Init draws a call (operation and arguments) from      *)
(*     bounded input sets, the operation's action applies the function     *)
(*     and stores what it returned or that it threw.                       *)
(***************************************************************************)
EXTENDS Integers, Sequences, FiniteSets, TLC

VARIABLES pc, call, res

vars == <<pc, call, res>>

\* const v = ...; F(v): the value is computed once and named in what follows
Let(v, F(_)) == F(v)

(***************************************************************************)
(* Naturals of any size: little-endian limbs, no leading zero limb.  The   *)
(* operators avoid deep recursion: carries and borrows are found by        *)
(* look-ahead, products by column sums, quotient digits by estimate.       *)
(***************************************************************************)
Limb == 4096

LimbBits == 12

Pow2Table ==
    <<1, 2, 4, 8, 16, 32, 64, 128, 256, 512, 1024, 2048, 4096, 8192, 16384,
      32768, 65536, 131072, 262144, 524288, 1048576, 2097152, 4194304,
      8388608, 16777216, 33554432, 67108864, 134217728, 268435456,
      536870912, 1073741824>>

Pow2(k) == Pow2Table[k + 1]

\* The limb of a at place i, 0 beyond its length
At(a, i) == IF i >= 1 /\ i <= Len(a) THEN a[i] ELSE 0

BNorm(a) ==
    LET nz == {i \in 1..Len(a) : a[i] # 0}
    IN  IF nz = {} THEN <<>>
        ELSE SubSeq(a, 1, CHOOSE i \in nz : \A j \in nz : j <= i)

\* The natural n < 2^31
BFromInt(n) == BNorm(<<n % Limb, (n \div Limb) % Limb, n \div (Limb * Limb)>>)

BAdd(a, b) ==
    LET n == IF Len(a) > Len(b) THEN Len(a) ELSE Len(b)
        t == SubSeq([i \in 1..(n + 1) |-> At(a, i) + At(b, i)], 1, n + 1)
        carry(i) == \E j \in 1..(i - 1) :
                        t[j] >= Limb /\ \A k \in (j + 1)..(i - 1) : t[k] = Limb - 1
    IN  BNorm([i \in 1..(n + 1) |-> (t[i] + (IF carry(i) THEN 1 ELSE 0)) % Limb])

\* a - b for a >= b
BSub(a, b) ==
    LET t == SubSeq([i \in 1..Len(a) |-> a[i] - At(b, i)], 1, Len(a))
        borrow(i) == \E j \in 1..(i - 1) :
                         t[j] < 0 /\ \A k \in (j + 1)..(i - 1) : t[k] = 0
    IN  BNorm([i \in 1..Len(a) |-> (t[i] - (IF borrow(i) THEN 1 ELSE 0)) % Limb])

\* -1, 0, 1 as a < b, a = b, a > b
BCmp(a, b) ==
    IF Len(a) < Len(b) THEN -1
    ELSE IF Len(a) > Len(b) THEN 1
    ELSE LET diff == {i \in 1..Len(a) : a[i] # b[i]}
         IN  IF diff = {} THEN 0
             ELSE LET i == CHOOSE i \in diff : \A j \in diff : j <= i
                  IN  IF a[i] < b[i] THEN -1 ELSE 1

\* The sum of a[i] * b[k + 1 - i] for i in lo..hi
RECURSIVE ColumnSum(_, _, _, _, _)
ColumnSum(a, b, k, lo, hi) ==
    IF lo > hi THEN 0
    ELSE a[lo] * b[k + 1 - lo] + ColumnSum(a, b, k, lo + 1, hi)

\* a * b, for a of at most 127 limbs
BMul(a, b) ==
    IF a = <<>> \/ b = <<>> THEN <<>>
    ELSE LET n   == Len(a) + Len(b) - 1
             col == SubSeq([k \in 1..n |->
                              ColumnSum(a, b, k,
                                        IF k + 1 - Len(b) > 1 THEN k + 1 - Len(b) ELSE 1,
                                        IF Len(a) < k THEN Len(a) ELSE k)], 1, n)
         IN  BAdd(BAdd([k \in 1..n |-> col[k] % Limb],
                       [k \in 1..(n + 1) |->
                           IF k = 1 THEN 0 ELSE (col[k - 1] \div Limb) % Limb]),
                  [k \in 1..(n + 2) |->
                      IF k <= 2 THEN 0 ELSE col[k - 2] \div (Limb * Limb)])

\* a * d for a limb d
BMulS(a, d) ==
    BAdd([i \in 1..Len(a) |-> (a[i] * d) % Limb],
         [i \in 1..(Len(a) + 1) |-> IF i = 1 THEN 0 ELSE (a[i - 1] * d) \div Limb])

\* The number of bits of n < 2^30
IntBitLen(n) == CHOOSE k \in 0..30 : n < Pow2(k) /\ (k = 0 \/ n >= Pow2(k - 1))

BitLen(a) ==
    IF a = <<>> THEN 0 ELSE LimbBits * (Len(a) - 1) + IntBitLen(a[Len(a)])

BShl(a, k) ==
    IF a = <<>> THEN <<>>
    ELSE LET w == k \div LimbBits
             f == Pow2(k % LimbBits)
         IN  BNorm([i \in 1..(Len(a) + w + 1) |->
                       IF i <= w THEN 0
                       ELSE ((At(a, i - w) * f) % Limb) + ((At(a, i - w - 1) * f) \div Limb)])

\* <<a shifted right by k bits, whether a non-zero bit was shifted out>>
BShr(a, k) ==
    LET w == k \div LimbBits
        f == Pow2(k % LimbBits)
        g == Pow2(LimbBits - (k % LimbBits))
    IN  <<BNorm([i \in 1..(IF Len(a) > w THEN Len(a) - w ELSE 0) |->
                    (a[i + w] \div f) + ((At(a, i + w + 1) % f) * g)]),
          (\E i \in 1..Len(a) : i <= w /\ a[i] # 0) \/ (At(a, w + 1) % f) # 0>>

\* An estimate of the limb d with b * d <= r < b * (d + 1), from the top limbs
\* of r and b: for r < b * Limb and a b whose top limb is at least Limb / 2 it
\* is d, d + 1 or d + 2
QuotEstimate(r, b) ==
    LET top == At(r, Len(b) + 1) * Limb + At(r, Len(b))
    IN  IF top \div b[Len(b)] > Limb - 1 THEN Limb - 1 ELSE top \div b[Len(b)]

\* <<d, r - b * d>> for the limb d with b * d <= r < b * (d + 1), from an
\* estimate q >= d and p = b * q
RECURSIVE QuotDigit(_, _, _, _)
QuotDigit(r, b, q, p) ==
    IF BCmp(p, r) <= 0 THEN <<q, BSub(r, p)>> ELSE QuotDigit(r, b, q - 1, BSub(p, b))

\* One step of the long division of a by b: qr is <<quotient limbs so far,
\* remainder so far>>, the next lower limb of a is taken in
BDivStep(a, b, qr) ==
    Let(BNorm(<<a[Len(a) - Len(b) + 1 - Len(qr[1])]>> \o qr[2]), LAMBDA cur :
    Let(QuotEstimate(cur, b), LAMBDA q :
    Let(QuotDigit(cur, b, q, BMulS(b, q)), LAMBDA dr :
        <<(<<dr[1]>>) \o qr[1], dr[2]>>)))

\* Long division of a by b, for Len(a) >= Len(b), from the top limbs of a:
\* <<quotient, remainder>>
RECURSIVE BDivLR(_, _, _)
BDivLR(a, b, qr) ==
    IF Len(qr[1]) = Len(a) - Len(b) + 1 THEN <<BNorm(qr[1]), qr[2]>>
    ELSE BDivLR(a, b, BDivStep(a, b, qr))

\* Long division of a by b whose top limb is at least Limb / 2
BDivNormal(a, b) ==
    BDivLR(a, b, <<<<>>, BNorm(SubSeq(a, Len(a) - Len(b) + 2, Len(a)))>>)

\* <<a div b, whether a mod b is not 0>> for b > 0
BDiv(a, b) ==
    IF Len(a) < Len(b) THEN <<<<>>, a # <<>> >>
    ELSE Let(LimbBits - IntBitLen(b[Len(b)]), LAMBDA sh :
         Let(BDivNormal(BShl(a, sh), BShl(b, sh)), LAMBDA qr :
             <<qr[1], qr[2] # <<>> >>))

IntTrailingZeros(n) ==
    CHOOSE k \in 0..(LimbBits - 1) : n % Pow2(k) = 0 /\ n % Pow2(k + 1) # 0

BTrailingZeros(a) ==
    LET i == CHOOSE i \in 1..Len(a) : a[i] # 0 /\ \A j \in 1..(i - 1) : a[j] = 0
    IN  LimbBits * (i - 1) + IntTrailingZeros(a[i])

BIsOdd(a) == a # <<>> /\ Head(a) % 2 = 1

\* acc * a^n
RECURSIVE BPow(_, _, _)
BPow(a, n, acc) == IF n = 0 \/ acc = <<>> THEN acc ELSE BPow(a, n - 1, BMul(a, acc))

(***************************************************************************)
(* JavaScript numbers: IEEE-754 binary64, round to nearest, ties to even.  *)
(***************************************************************************)
SigBits == 53

MaxExp == 1024

Zero == [k |-> "num", s |-> 1, m |-> <<>>, e |-> 0]

NaN == [k |-> "nan", s |-> 1, m |-> <<>>, e |-> 0]

Inf(sg) == [k |-> "inf", s |-> sg, m |-> <<>>, e |-> 0]

\* 0.5, 1, 2, 10, 12, 100 and Number.EPSILON = 2^-52
Half == [k |-> "num", s |-> 1, m |-> <<1>>, e |-> -1]

One == [k |-> "num", s |-> 1, m |-> <<1>>, e |-> 0]

Two == [k |-> "num", s |-> 1, m |-> <<1>>, e |-> 1]

Ten == [k |-> "num", s |-> 1, m |-> <<5>>, e |-> 1]

Twelve == [k |-> "num", s |-> 1, m |-> <<3>>, e |-> 2]

Hundred == [k |-> "num", s |-> 1, m |-> <<25>>, e |-> 2]

Fifteen == [k |-> "num", s |-> 1, m |-> <<15>>, e |-> 0]

Thirty == [k |-> "num", s |-> 1, m |-> <<15>>, e |-> 1]

Epsilon == [k |-> "num", s |-> 1, m |-> <<1>>, e |-> -52]

IsNum(x) == x.k = "num"

IsZero(x) == x.k = "num" /\ x.m = <<>>

\* The number sg * m * 2^e for m of at most 53 bits, with m made odd
Canon(sg, m, e) ==
    IF m = <<>> THEN Zero
    ELSE Let(BTrailingZeros(m), LAMBDA tz :
             [k |-> "num", s |-> sg, m |-> BShr(m, tz)[1], e |-> e + tz])

\* m with its lowest bit rounded off, m being sh[1] and sh[2] telling whether
\* a non-zero fraction follows it: up if the bit is set and either a fraction
\* follows or the bit above is set (the tie goes to the even significand)
RoundOff(sh) ==
    BShr(IF sh[1][1] % 2 = 1 /\ (sh[2] \/ (sh[1][1] \div 2) % 2 = 1)
         THEN BAdd(sh[1], <<1>>) ELSE sh[1], 1)[1]

\* The number nearest to sg * (m + f) * 2^e, where 0 < f < 1 if sticky and
\* f = 0 otherwise (a sticky m has more than 54 bits): ties go to the even
\* significand, and a result of 2^1024 or more is an infinity.
RoundToDouble(sg, m, e, sticky) ==
    Let(BitLen(m) - SigBits, LAMBDA k :
    Let(IF k <= 0 THEN m
        ELSE Let(BShr(m, k - 1), LAMBDA sh : RoundOff(<<sh[1], sh[2] \/ sticky>>)),
        LAMBDA q :
        IF BitLen(q) + e + (IF k <= 0 THEN 0 ELSE k) > MaxExp THEN Inf(sg)
        ELSE Canon(sg, q, e + (IF k <= 0 THEN 0 ELSE k))))

FromInt(n) == Canon(IF n < 0 THEN -1 ELSE 1, BFromInt(IF n < 0 THEN -n ELSE n), 0)

FNeg(x) == IF x.k = "nan" \/ IsZero(x) THEN x ELSE [x EXCEPT !.s = -x.s]

FAbs(x) == IF x.k = "nan" THEN x ELSE [x EXCEPT !.s = 1]

\* Position of the top bit: 2^(Top-1) <= |x| < 2^Top
Top(x) == BitLen(x.m) + x.e

\* -1, 0, 1 as |x| < |y|, |x| = |y|, |x| > |y|, for numbers
CmpMag(x, y) ==
    IF x.m = <<>> \/ y.m = <<>>
    THEN (IF x.m = y.m THEN 0 ELSE IF x.m = <<>> THEN -1 ELSE 1)
    ELSE Let(Top(x) - Top(y), LAMBDA d :
             IF d < 0 THEN -1
             ELSE IF d > 0 THEN 1
             ELSE BCmp(BShl(x.m, IF x.e < y.e THEN 0 ELSE x.e - y.e),
                       BShl(y.m, IF x.e < y.e THEN y.e - x.e ELSE 0)))

\* x < y
FLt(x, y) ==
    IF x.k = "nan" \/ y.k = "nan" THEN FALSE
    ELSE IF x.k = "inf" THEN x.s = -1 /\ ~(y.k = "inf" /\ y.s = -1)
    ELSE IF y.k = "inf" THEN y.s = 1
    ELSE IF x.s # y.s THEN x.s < y.s
    ELSE x.s * CmpMag(x, y) < 0

\* x === y
FEq(x, y) == x.k # "nan" /\ y.k # "nan" /\ x = y

FLe(x, y) == FLt(x, y) \/ FEq(x, y)

FGt(x, y) == FLt(y, x)

FGe(x, y) == FLe(y, x)

\* sx * a * 2^e + sy * b * 2^e
AddAligned(sx, a, sy, b, e) ==
    Let(BCmp(a, b), LAMBDA c :
        RoundToDouble(IF c >= 0 THEN sx ELSE sy,
                      IF sx = sy THEN BAdd(a, b)
                      ELSE IF c >= 0 THEN BSub(a, b) ELSE BSub(b, a),
                      e, FALSE))

\* x + y
FAdd(x, y) ==
    IF x.k = "nan" \/ y.k = "nan" THEN NaN
    ELSE IF x.k = "inf" THEN (IF y.k = "inf" /\ y.s # x.s THEN NaN ELSE x)
    ELSE IF y.k = "inf" THEN y
    ELSE IF IsZero(x) THEN y
    ELSE IF IsZero(y) THEN x
    ELSE Let(Top(x) - Top(y), LAMBDA d :
             IF d > SigBits + 11 THEN x
             ELSE IF -d > SigBits + 11 THEN y
             ELSE AddAligned(x.s, BShl(x.m, IF x.e < y.e THEN 0 ELSE x.e - y.e),
                             y.s, BShl(y.m, IF x.e < y.e THEN y.e - x.e ELSE 0),
                             IF x.e < y.e THEN x.e ELSE y.e))

\* x - y
FSub(x, y) == FAdd(x, FNeg(y))

\* x * y
FMul(x, y) ==
    IF x.k = "nan" \/ y.k = "nan" THEN NaN
    ELSE IF x.k = "inf" \/ y.k = "inf"
    THEN (IF IsZero(x) \/ IsZero(y) THEN NaN ELSE Inf(x.s * y.s))
    ELSE IF IsZero(x) \/ IsZero(y) THEN Zero
    ELSE RoundToDouble(x.s * y.s, BMul(x.m, y.m), x.e + y.e, FALSE)

\* x / y
FDiv(x, y) ==
    IF x.k = "nan" \/ y.k = "nan" THEN NaN
    ELSE IF x.k = "inf" THEN (IF y.k = "inf" THEN NaN ELSE Inf(x.s * y.s))
    ELSE IF y.k = "inf" THEN Zero
    ELSE IF IsZero(y) THEN (IF IsZero(x) THEN NaN ELSE Inf(x.s))
    ELSE IF IsZero(x) THEN Zero
    ELSE Let(SigBits + 2 + BitLen(y.m) - BitLen(x.m), LAMBDA sh :
         Let(BDiv(BShl(x.m, sh), y.m), LAMBDA qr :
             RoundToDouble(x.s * y.s, qr[1], x.e - y.e - sh, qr[2])))

\* The integer and fraction of |x|: <<floor(|x|), 0 | 1 | 2 | 3>> as the
\* fraction is 0, in (0, 1/2), exactly 1/2, in (1/2, 1)
Parts(x) ==
    IF x.e >= 0 THEN <<BShl(x.m, x.e), 0>>
    ELSE Let(BShr(x.m, -x.e - 1), LAMBDA sh :
             <<BShr(sh[1], 1)[1],
               IF BIsOdd(sh[1]) THEN (IF sh[2] THEN 3 ELSE 2)
               ELSE (IF sh[2] THEN 1 ELSE 0)>>)

\* Math.floor(x)
MathFloor(x) ==
    IF x.k # "num" THEN x
    ELSE Let(Parts(x), LAMBDA p :
             Canon(x.s, IF x.s = -1 /\ p[2] # 0 THEN BAdd(p[1], <<1>>) ELSE p[1], 0))

\* Math.ceil(x)
MathCeil(x) == FNeg(MathFloor(FNeg(x)))

\* Math.trunc(x)
MathTrunc(x) == IF x.k # "num" THEN x ELSE Canon(x.s, Parts(x)[1], 0)

\* Math.round(x): floor(x + 1/2), the half always going up
MathRound(x) ==
    IF x.k # "num" THEN x
    ELSE Let(Parts(x), LAMBDA p :
             Canon(x.s,
                   IF (x.s = 1 /\ p[2] >= 2) \/ (x.s = -1 /\ p[2] = 3)
                   THEN BAdd(p[1], <<1>>) ELSE p[1],
                   0))

\* Math.sign(x)
MathSign(x) ==
    IF x.k = "nan" \/ IsZero(x) THEN x ELSE [k |-> "num", s |-> x.s, m |-> <<1>>, e |-> 0]

\* A minimum that is its first argument
MathMinTakesFirst(x, y) == x

\* Math.min(x, y) of two numbers
MathMin(x, y) ==
    IF x.k = "nan" \/ y.k = "nan" THEN NaN ELSE IF FLe(x, y) THEN x ELSE y

\* Math.max(x, y)
\* A maximum that is always its second argument
MathMaxTakesSecond(x, y) == y

MathMax(x, y) ==
    IF x.k = "nan" \/ y.k = "nan" THEN NaN ELSE IF FLt(x, y) THEN y ELSE x

\* x % 2 === 0 for an integer-valued x
IsEvenInt(x) == x.k = "num" /\ (IsZero(x) \/ x.e >= 1)

\* Number.isInteger(x)
IsInteger(x) == x.k = "num" /\ x.e >= 0

\* Number.isFinite(x)
IsFinite(x) == x.k = "num"

\* Math.pow(x, n) for a natural n: the exact power, correctly rounded
MathPow(x, n) ==
    IF x.k = "nan" THEN NaN
    ELSE IF n = 0 THEN One
    ELSE IF x.k = "inf" THEN Inf(IF n % 2 = 0 THEN 1 ELSE x.s)
    ELSE IF IsZero(x) THEN Zero
    ELSE RoundToDouble(IF n % 2 = 0 THEN 1 ELSE x.s, BPow(x.m, n, <<1>>), x.e * n, FALSE)

\* Math.log is implementation-approximated: its result is one of the two
\* numbers next to the natural logarithm, which is computed here in fixed
\* point with LogBits fractional bits.
LogBits == 96

\* ln 2 in fixed point
Ln2Fixed == <<920, 3643, 3017, 1946, 463, 3965, 535, 2839>>

\* 1, 1/3, 1/5, ..., 1/13 in fixed point
OddReciprocals ==
    <<<<0, 0, 0, 0, 0, 0, 0, 0, 1>>,
      <<1365, 1365, 1365, 1365, 1365, 1365, 1365, 1365>>,
      <<819, 819, 819, 819, 819, 819, 819, 819>>,
      <<585, 585, 585, 585, 585, 585, 585, 585>>,
      <<455, 455, 455, 455, 455, 455, 455, 455>>,
      <<1861, 1489, 372, 1117, 3351, 1861, 1489, 372>>,
      <<315, 315, 315, 315, 315, 315, 315, 315>>>>

\* OddReciprocals[j] + z2 * acc in fixed point
Horner(z2, j, acc) ==
    IF z2 = <<>> \/ acc = <<>> THEN OddReciprocals[j]
    ELSE BAdd(OddReciprocals[j], BShr(BMul(z2, acc), LogBits)[1])

\* atanh(z) = z + z^3 / 3 + ... + z^13 / 13 in fixed point, for z at most
\* 1/192 (the terms left out are below the last bit), z2 being z * z
AtanhSeries(z, z2) ==
    IF z = <<>> THEN <<>> ELSE
    BShr(BMul(z, Horner(z2, 1, Horner(z2, 2, Horner(z2, 3, Horner(z2, 4,
                 Horner(z2, 5, Horner(z2, 6, OddReciprocals[7]))))))),
         LogBits)[1]

\* |ln(i / 64)| in fixed point for i = 48, ..., 96
LnTable ==
    <<<<2523, 2781, 239, 1182, 878, 1101, 1416, 1178>>,
      <<2033, 720, 2254, 3831, 3985, 137, 3642, 1093>>,
      <<1996, 2099, 2866, 3887, 1894, 3478, 568, 1011>>,
      <<291, 1170, 49, 3947, 2748, 3660, 111, 930>>,
      <<3915, 3406, 3671, 3181, 1459, 1937, 2010, 850>>,
      <<1952, 2444, 1766, 2103, 839, 3242, 1922, 772>>,
      <<2553, 605, 1797, 1599, 2171, 3434, 3712, 695>>,
      <<1765, 1129, 3920, 709, 2848, 1538, 3065, 620>>,
      <<1016, 360, 3175, 3963, 4040, 68, 3869, 546>>,
      <<1484, 3740, 7, 2597, 1094, 1592, 1831, 474>>,
      <<1004, 1514, 3613, 2186, 2377, 1493, 862, 403>>,
      <<481, 3339, 3495, 2757, 126, 1490, 785, 333>>,
      <<3061, 4057, 2211, 104, 3642, 2905, 1432, 264>>,
      <<1632, 3735, 2699, 2585, 4057, 164, 2645, 196>>,
      <<2794, 2531, 2059, 547, 930, 3151, 174, 130>>,
      <<1046, 2280, 636, 285, 1238, 2402, 2069, 64>>,
      <<>>,
      <<3738, 3508, 2547, 1991, 3968, 353, 2069, 63>>,
      <<1265, 1008, 830, 3073, 3596, 3129, 166, 126>>,
      <<247, 1941, 794, 2018, 2414, 1969, 2604, 187>>,
      <<2231, 1611, 190, 1331, 2225, 1536, 1304, 248>>,
      <<1552, 2103, 665, 3337, 3025, 2401, 471, 308>>,
      <<2541, 2459, 3044, 1209, 1387, 2222, 210, 367>>,
      <<2716, 3362, 1291, 1590, 2773, 932, 621, 425>>,
      <<4065, 2175, 2538, 3678, 2802, 1762, 1799, 482>>,
      <<1153, 3631, 3374, 2860, 284, 3994, 3836, 538>>,
      <<515, 2958, 2059, 1129, 4074, 3843, 2725, 594>>,
      <<496, 2858, 4007, 972, 1786, 3481, 2646, 649>>,
      <<1038, 3137, 231, 2681, 3879, 3604, 3680, 703>>,
      <<2772, 3429, 1990, 291, 434, 66, 1810, 757>>,
      <<2673, 1550, 3202, 1678, 2221, 926, 1205, 810>>,
      <<623, 3075, 412, 3675, 383, 2512, 1938, 862>>,
      <<3557, 2819, 2123, 1077, 1332, 2291, 4079, 913>>,
      <<4035, 255, 981, 3261, 1509, 3525, 3598, 964>>,
      <<2159, 2253, 2730, 1361, 3196, 3499, 560, 1015>>,
      <<97, 3560, 3535, 2263, 3651, 2204, 3219, 1064>>,
      <<1476, 501, 3699, 896, 3736, 2794, 3442, 1113>>,
      <<1693, 335, 2314, 2408, 3557, 3827, 1287, 1162>>,
      <<2580, 582, 179, 3111, 1140, 3768, 906, 1210>>,
      <<1488, 3443, 3260, 2673, 1303, 1370, 2353, 1257>>,
      <<3788, 3789, 1069, 159, 379, 135, 1583, 1304>>,
      <<830, 3928, 1828, 2882, 2016, 459, 2742, 1350>>,
      <<3527, 899, 566, 660, 39, 4054, 1782, 1396>>,
      <<83, 3972, 266, 2993, 3154, 1958, 2848, 1441>>,
      <<4075, 788, 905, 423, 3904, 3502, 1887, 1486>>,
      <<3794, 2425, 718, 217, 2751, 3808, 3040, 1530>>,
      <<1088, 1568, 1692, 1709, 1289, 432, 2254, 1574>>,
      <<500, 1861, 2355, 3758, 1115, 1800, 3664, 1617>>,
      <<2493, 861, 2778, 764, 3681, 2863, 3215, 1660>>>>

\* |ln(m / (i * 2^t))| in fixed point, for an i with |m / (i * 2^t) - 1| at
\* most 1/96, as 2 * atanh(|m - i * 2^t| / (m + i * 2^t))
LnFraction(m, it) ==
    Let(BDiv(BShl(IF BCmp(m, it) >= 0 THEN BSub(m, it) ELSE BSub(it, m), LogBits),
             BAdd(m, it))[1], LAMBDA z :
        BShl(AtanhSeries(z, BShr(BMul(z, z), LogBits)[1]), 1))

\* The number next to sg * m * 2^e towards zero, or if up the one away
\* from zero
Neighbour(sg, m, e, up) ==
    Let(BitLen(m) - SigBits, LAMBDA sh :
        IF sh <= 0 THEN Canon(sg, m, e)
        ELSE Canon(sg, IF up THEN BAdd(BShr(m, sh)[1], <<1>>) ELSE BShr(m, sh)[1],
                   e + sh))

\* a + b for the fixed-point numbers sa * a and sb * b, as <<sign, magnitude>>
FixedAdd(sa, a, sb, b) ==
    Let(BCmp(a, b), LAMBDA c :
        <<IF c >= 0 THEN sa ELSE sb,
          IF sa = sb THEN BAdd(a, b) ELSE IF c >= 0 THEN BSub(a, b) ELSE BSub(b, a)>>)

\* ln(m * 2^e) in fixed point, as <<sign, magnitude>>: with m * 2^e equal to
\* 2^k * (i / 64) * (m64 / (i * 2^t)) it is k * ln 2 + ln(i / 64) + ln(m64 / (i * 2^t))
LnFixed(k, i, m64, it) ==
    Let(FixedAdd(IF k < 0 THEN -1 ELSE 1, BMulS(Ln2Fixed, IF k < 0 THEN -k ELSE k),
                 IF i < 64 THEN -1 ELSE 1, LnTable[i - 47]), LAMBDA coarse :
        FixedAdd(coarse[1], coarse[2],
                 IF BCmp(m64, it) >= 0 THEN 1 ELSE -1, LnFraction(m64, it)))

\* LnFixed for m * 2^e = 2^(e + t) * (m / 2^t) with m / 2^t in [3/4, 3/2) and
\* i the integer nearest to 64 * m / 2^t
LnReduced(m, e, t, i) == LnFixed(e + t, i, BShl(m, 6), BShl(BFromInt(i), t))

\* ln(m * 2^e) in fixed point, t being the number of bits of m, or one less,
\* that puts m / 2^t in [3/4, 3/2)
LnOf(m, e, t) ==
    LnReduced(m, e, t, At(BShr(BAdd(BShl(m, 6), BShl(<<1>>, t - 1)), t)[1], 1))

\* Math.log(x): the neighbours of ln x, the nearer to zero first
MathLog(x) ==
    IF x.k = "nan" THEN <<NaN, NaN>>
    ELSE IF IsZero(x) THEN <<Inf(-1), Inf(-1)>>
    ELSE IF x.s < 0 THEN <<NaN, NaN>>
    ELSE IF x.k = "inf" THEN <<x, x>>
    ELSE IF x.m = <<1>> /\ x.e = 0 THEN <<Zero, Zero>>
    ELSE Let(BitLen(x.m), LAMBDA n :
         Let(LnOf(x.m, x.e,
                  IF BCmp(BShl(x.m, 1), BShl(<<3>>, n - 1)) >= 0 THEN n ELSE n - 1),
             LAMBDA r : <<Neighbour(r[1], r[2], -LogBits, FALSE),
                          Neighbour(r[1], r[2], -LogBits, TRUE)>>))

\* The number a decimal literal n / 10^d denotes, d <= 22: n and 10^d are
\* exact and the quotient is correctly rounded
Dec(n, d) == FDiv(FromInt(n), Canon(1, BPow(<<10>>, d, <<1>>), 0))

(***************************************************************************)
(* Calls and results.  A call either returns a value or throws             *)
(* MonieUtilsError; a pending call has done neither yet.                   *)
(***************************************************************************)
Pending == [ok |-> FALSE, st |-> "pending"]

Throw == [ok |-> FALSE, st |-> "MonieUtilsError"]

Ret(v) == [ok |-> TRUE, st |-> "returned", v |-> v]

\* const v = r; F(v) for the result r of a call: what r threw is thrown on
Then(r, F(_)) == IF r.ok THEN F(r.v) ELSE Throw

\* The number a literal of the inputs denotes: <<"dec", n, d>> is the
\* decimal literal n / 10^d, <<"pow2", n, e>> is n * 2^e, <<"inf", sg, 0>> is
\* sg * Infinity, <<"nan", 0, 0>> is NaN, and <<"val", x, 0>> is the number x
\* an earlier call returned.
Num(l) ==
    CASE l[1] = "dec"  -> Dec(l[2], l[3])
      [] l[1] = "pow2" -> Canon(IF l[2] < 0 THEN -1 ELSE 1,
                                BFromInt(IF l[2] < 0 THEN -l[2] ELSE l[2]), l[3])
      [] l[1] = "inf"  -> Inf(l[2])
      [] l[1] = "val"  -> l[2]
      [] OTHER         -> NaN

\* The value of an integer number of magnitude below 2^30, as an integer
ToInt(x) ==
    Let(BShl(x.m, x.e), LAMBDA b :
        x.s * (At(b, 1) + At(b, 2) * Limb + At(b, 3) * Limb * Limb))

\* 1e-10
Tolerance == Dec(1, 10)

\* 0.01
Cent == Dec(1, 2)

(***************************************************************************)
(* validation                                                              *)
(***************************************************************************)
\* A validation that accepts every number
IsValidAmountAcceptsAll(amount) == TRUE

IsValidAmount(amount) == IsFinite(amount)

(***************************************************************************)
(* arithmetic/arithmetic.ts                                                *)
(***************************************************************************)
\* The 'bankers' case of roundMoney, before the division by the multiplier
BankersCase(scaled, rounded) ==
    IF FLt(FAbs(FSub(FSub(scaled, MathFloor(scaled)), Half)), Epsilon)
    THEN (IF IsEvenInt(rounded) THEN rounded ELSE FSub(rounded, MathSign(rounded)))
    ELSE rounded

RoundMoney(amount, precision, mode) ==
    IF ~IsValidAmount(amount) THEN Throw
    ELSE IF FLt(precision, Zero) \/ ~IsInteger(precision) THEN Throw
    ELSE Let(MathPow(Ten, ToInt(precision)), LAMBDA multiplier :
         Let(FMul(amount, multiplier), LAMBDA scaled :
             Ret(FDiv(CASE mode = "floor"   -> MathFloor(scaled)
                        [] mode = "ceil"    -> MathCeil(scaled)
                        [] mode = "bankers" -> BankersCase(scaled, MathRound(scaled))
                        [] OTHER            -> MathRound(scaled),
                      multiplier))))

\* roundMoney(amount) rounding down instead of to the nearest
RoundMoney2Down(amount) == RoundMoney(amount, Two, "floor")

\* roundMoney(amount) rounding up instead of to the nearest
RoundMoney2Up(amount) == RoundMoney(amount, Two, "ceil")

\* roundMoney(amount): precision 2, mode 'round'
RoundMoney2(amount) == RoundMoney(amount, Two, "round")

\* A string is <<"string", chars>> with chars the sequence of its characters;
\* an argument left out is Undefined
Undefined == <<"undefined">>

Str(chars) == <<"string", chars>>

LowerCase ==
    <<"a", "b", "c", "d", "e", "f", "g", "h", "i", "j", "k", "l", "m",
      "n", "o", "p", "q", "r", "s", "t", "u", "v", "w", "x", "y", "z">>

UpperCase ==
    <<"A", "B", "C", "D", "E", "F", "G", "H", "I", "J", "K", "L", "M",
      "N", "O", "P", "Q", "R", "S", "T", "U", "V", "W", "X", "Y", "Z">>

\* chars.toUpperCase()
ToUpperCase(chars) ==
    [i \in 1..Len(chars) |->
        IF \E j \in 1..26 : LowerCase[j] = chars[i]
        THEN UpperCase[CHOOSE j \in 1..26 : LowerCase[j] = chars[i]]
        ELSE chars[i]]

\* The keys of CURRENCY_INFO
CurrencyCodes ==
    {<<"U", "S", "D">>, <<"E", "U", "R">>, <<"G", "B", "P">>, <<"J", "P", "Y">>,
     <<"C", "H", "F">>, <<"C", "A", "D">>, <<"A", "U", "D">>, <<"N", "G", "N">>,
     <<"Z", "A", "R">>, <<"K", "E", "S">>, <<"G", "H", "S">>, <<"C", "N", "Y">>,
     <<"I", "N", "R">>, <<"S", "G", "D">>, <<"B", "T", "C">>, <<"E", "T", "H">>,
     <<"U", "S", "D", "T">>}

IsValidCurrency(currencyCode) ==
    IF currencyCode[1] # "string" THEN FALSE
    ELSE ToUpperCase(currencyCode[2]) \in CurrencyCodes

\* A value that is truthy: a string that is not empty
Truthy(value) == value[1] = "string" /\ Len(value[2]) > 0

\* The currency check of addMoney and subtractMoney passes:
\* !(currency && !isValidCurrency(currency))
CurrencyOk(currency) == ~(Truthy(currency) /\ ~IsValidCurrency(currency))

AddMoney(amount1, amount2, currency) ==
    IF ~IsValidAmount(amount1) THEN Throw
    ELSE IF ~IsValidAmount(amount2) THEN Throw
    ELSE IF ~CurrencyOk(currency) THEN Throw
    ELSE RoundMoney2(FAdd(amount1, amount2))

SubtractMoney(amount1, amount2, currency) ==
    IF ~IsValidAmount(amount1) THEN Throw
    ELSE IF ~IsValidAmount(amount2) THEN Throw
    ELSE IF ~CurrencyOk(currency) THEN Throw
    ELSE RoundMoney2(FSub(amount1, amount2))

MultiplyMoney(amount, multiplier) ==
    IF ~IsValidAmount(amount) THEN Throw
    ELSE IF ~IsValidAmount(multiplier) THEN Throw
    ELSE RoundMoney2(FMul(amount, multiplier))

\* divideMoney without the validation of the divisor
DivideMoneyAnyDivisor(amount, divisor) ==
    IF ~IsValidAmount(amount) THEN Throw
    ELSE RoundMoney2(FDiv(amount, divisor))

DivideMoney(amount, divisor) ==
    IF ~IsValidAmount(amount) THEN Throw
    ELSE IF ~IsValidAmount(divisor) THEN Throw
    ELSE IF FEq(divisor, Zero) THEN Throw
    ELSE RoundMoney2(FDiv(amount, divisor))

\* splitAmount's loop with the remainder never handed out
SplitLoopKeepsRemainder(amounts, i, remainderCents) == Ret(<<amounts, Zero>>)

\* splitAmount's loop handing the remainder to the first parts instead of the last
RECURSIVE SplitLoopFromFirst(_, _, _)
SplitLoopFromFirst(amounts, i, remainderCents) ==
    IF i >= 1 /\ FGt(remainderCents, Zero)
    THEN Then(RoundMoney2(FAdd(amounts[Len(amounts) + 1 - i], Cent)), LAMBDA r :
              SplitLoopFromFirst([amounts EXCEPT ![Len(amounts) + 1 - i] = r], i - 1,
                                 FSub(remainderCents, One)))
    ELSE Ret(<<amounts, remainderCents>>)

\* The loop of splitAmount that hands out the remainder, from the last part
\* down: returns <<amounts, remainderCents>>, or throws if roundMoney does
RECURSIVE SplitLoop(_, _, _)
SplitLoop(amounts, i, remainderCents) ==
    IF i >= 1 /\ FGt(remainderCents, Zero)
    THEN Then(RoundMoney2(FAdd(amounts[i], Cent)), LAMBDA r :
              SplitLoop([amounts EXCEPT ![i] = r], i - 1, FSub(remainderCents, One)))
    ELSE Ret(<<amounts, remainderCents>>)

SplitAmount(totalAmount, numberOfParts) ==
    IF ~IsValidAmount(totalAmount) THEN Throw
    ELSE IF ~IsInteger(numberOfParts) \/ FLe(numberOfParts, Zero) THEN Throw
    ELSE Let(FDiv(MathFloor(FDiv(FMul(totalAmount, Hundred), numberOfParts)), Hundred),
             LAMBDA baseAmount :
         Then(RoundMoney2(FSub(totalAmount, FMul(baseAmount, numberOfParts))),
              LAMBDA remainder :
         Then(SplitLoop([i \in 1..ToInt(numberOfParts) |-> baseAmount],
                        ToInt(numberOfParts), MathRound(FMul(remainder, Hundred))),
              LAMBDA loop :
              Ret([amounts |-> loop[1], totalAmount |-> totalAmount,
                   numberOfParts |-> numberOfParts,
                   remainder |-> FDiv(loop[2], Hundred)]))))

\* ratios.reduce((sum, x) => sum + x, 0)
RECURSIVE SumFrom(_, _, _)
SumFrom(xs, i, acc) ==
    IF i > Len(xs) THEN acc ELSE SumFrom(xs, i + 1, FAdd(acc, xs[i]))

\* A sum that leaves out the first element
SumSkipsFirst(xs) == SumFrom(xs, 2, Zero)

Sum(xs) == SumFrom(xs, 1, Zero)

\* ratios.map(ratio => roundMoney((totalAmount * ratio) / totalRatio)): the
\* amounts, or what the first roundMoney to throw threw
RECURSIVE MapShares(_, _, _, _)
MapShares(totalAmount, ratios, totalRatio, amounts) ==
    IF Len(amounts) = Len(ratios) THEN Ret(amounts)
    ELSE Then(RoundMoney2(FDiv(FMul(totalAmount, ratios[Len(amounts) + 1]), totalRatio)),
              LAMBDA amount :
              MapShares(totalAmount, ratios, totalRatio, Append(amounts, amount)))

DistributeProportionally(totalAmount, ratios) ==
    IF ~IsValidAmount(totalAmount) THEN Throw
    ELSE IF Len(ratios) = 0 THEN Throw
    ELSE IF \E i \in 1..Len(ratios) :
                ~IsValidAmount(ratios[i]) \/ FLt(ratios[i], Zero) THEN Throw
    ELSE Let(Sum(ratios), LAMBDA totalRatio :
         IF FEq(totalRatio, Zero) THEN Throw
         ELSE Then(MapShares(totalAmount, ratios, totalRatio, <<>>), LAMBDA amounts :
              Then(RoundMoney2(FSub(totalAmount, Sum(amounts))), LAMBDA remainder :
                   Ret([amounts |-> amounts, totalAmount |-> totalAmount,
                        ratios |-> ratios, remainder |-> remainder]))))

(***************************************************************************)
(* utils: rounding and precision                                           *)
(***************************************************************************)
RoundToNearestCent(amount) ==
    IF ~IsValidAmount(amount) THEN Throw
    ELSE Ret(FDiv(MathRound(FMul(amount, Hundred)), Hundred))

\* The end of roundToBankersRounding, from the floor of the pre-rounded value on
BankersResult(shifted, multiplier, mode, rounded, floor) ==
    IF FLt(FAbs(FSub(FSub(rounded, floor), Half)), Tolerance)
    THEN Ret(FDiv(IF mode = "half-even"
                  THEN (IF IsEvenInt(floor) THEN floor ELSE FAdd(floor, One))
                  ELSE (IF IsEvenInt(floor) THEN FAdd(floor, One) ELSE floor),
                  multiplier))
    ELSE Ret(FDiv(MathRound(shifted), multiplier))

RoundToBankersRounding(amount, decimalPlaces, mode) ==
    IF ~IsValidAmount(amount) THEN Throw
    ELSE IF ~IsInteger(decimalPlaces) \/ FLt(decimalPlaces, Zero) THEN Throw
    ELSE Let(MathPow(Ten, ToInt(decimalPlaces)), LAMBDA multiplier :
         Let(FMul(amount, multiplier), LAMBDA shifted :
         Let(FDiv(MathRound(FMul(shifted, Ten)), Ten), LAMBDA rounded :
             BankersResult(shifted, multiplier, mode, rounded, MathFloor(rounded)))))

TruncateToDecimalPlaces(amount, places) ==
    IF ~IsValidAmount(amount) THEN Throw
    ELSE IF ~IsInteger(places) \/ FLt(places, Zero) THEN Throw
    ELSE Let(MathPow(Ten, ToInt(places)), LAMBDA multiplier :
             Ret(FDiv(MathTrunc(FMul(amount, multiplier)), multiplier)))

CeilToNearestCent(amount) ==
    IF ~IsValidAmount(amount) THEN Throw
    ELSE Ret(FDiv(MathCeil(FMul(amount, Hundred)), Hundred))

(***************************************************************************)
(* loans                                                                   *)
(***************************************************************************)
\* The rest of calculateMonthlyPayment at a positive rate, from the rounded
\* payment on
PaymentSummary(principal, rate, termMonths, roundedPayment) ==
    Then(RoundMoney2(FMul(roundedPayment, termMonths)), LAMBDA totalAmount :
    Then(RoundMoney2(FSub(totalAmount, principal)), LAMBDA totalInterest :
         Ret([monthlyPayment |-> roundedPayment, principal |-> principal,
              rate |-> rate, termMonths |-> termMonths,
              totalAmount |-> totalAmount, totalInterest |-> totalInterest])))

CalculateMonthlyPayment(principal, rate, termMonths) ==
    IF ~IsValidAmount(principal) \/ FLe(principal, Zero) THEN Throw
    ELSE IF ~IsValidAmount(rate) \/ FLt(rate, Zero) THEN Throw
    ELSE IF ~IsInteger(termMonths) \/ FLe(termMonths, Zero) THEN Throw
    ELSE IF FEq(rate, Zero)
    THEN Then(RoundMoney2(FDiv(principal, termMonths)), LAMBDA monthlyPayment :
         Then(RoundMoney2(FMul(monthlyPayment, termMonths)), LAMBDA totalAmount :
              Ret([monthlyPayment |-> monthlyPayment, principal |-> principal,
                   rate |-> rate, termMonths |-> termMonths,
                   totalAmount |-> totalAmount, totalInterest |-> Zero])))
    ELSE Let(FDiv(FDiv(rate, Hundred), Twelve), LAMBDA monthlyRate :
         Let(MathPow(FAdd(One, monthlyRate), ToInt(termMonths)), LAMBDA growth :
         Then(RoundMoney2(FDiv(FMul(principal, FMul(monthlyRate, growth)),
                               FSub(growth, One))),
              LAMBDA roundedPayment :
              PaymentSummary(principal, rate, termMonths, roundedPayment))))

\* The loop of generateAmortizationSchedule from period i on: returns the
\* payments pushed so far followed by the rest, or throws if roundMoney does
RECURSIVE ScheduleLoop(_, _, _, _, _, _, _)
ScheduleLoop(payments, i, remainingBalance, rate, monthlyRate, termMonths, monthlyPayment) ==
    IF i > termMonths THEN Ret(payments)
    ELSE Then(IF FEq(rate, Zero) THEN Ret(Zero)
              ELSE RoundMoney2(FMul(remainingBalance, monthlyRate)),
              LAMBDA interestAmount :
         Then(RoundMoney2(FSub(monthlyPayment, interestAmount)),
              LAMBDA principalAmount :
         Let(IF i = termMonths THEN remainingBalance ELSE principalAmount,
             LAMBDA actualPrincipalAmount :
         Then(RoundMoney2(FAdd(actualPrincipalAmount, interestAmount)),
              LAMBDA actualPaymentAmount :
         Then(RoundMoney2(MathMax(Zero, FSub(remainingBalance, actualPrincipalAmount))),
              LAMBDA newBalance :
              ScheduleLoop(Append(payments,
                                  [paymentNumber |-> i,
                                   paymentAmount |-> actualPaymentAmount,
                                   principalAmount |-> actualPrincipalAmount,
                                   interestAmount |-> interestAmount,
                                   remainingBalance |-> newBalance]),
                           i + 1, newBalance, rate, monthlyRate, termMonths,
                           monthlyPayment))))))

GenerateAmortizationSchedule(principal, rate, termMonths) ==
    Then(CalculateMonthlyPayment(principal, rate, termMonths), LAMBDA summary :
    Then(ScheduleLoop(<<>>, 1, principal, rate, FDiv(FDiv(rate, Hundred), Twelve),
                      ToInt(termMonths), summary.monthlyPayment),
         LAMBDA payments : Ret([payments |-> payments, summary |-> summary])))

\* calculateLoanBalance after its validation: the short cut at paymentsMade
\* 0, the zero-rate case and the closed form
LoanBalanceOf(principal, rate, termMonths, paymentsMade) ==
    IF FEq(paymentsMade, Zero)
    THEN Ret([remainingBalance |-> principal, principalPaid |-> Zero,
              interestPaid |-> Zero, paymentsMade |-> Zero,
              paymentsRemaining |-> termMonths])
    ELSE Then(CalculateMonthlyPayment(principal, rate, termMonths), LAMBDA summary :
         IF FEq(rate, Zero)
         THEN Then(RoundMoney2(FMul(summary.monthlyPayment, paymentsMade)),
                   LAMBDA principalPaid :
              Then(RoundMoney2(FSub(principal, principalPaid)),
                   LAMBDA remainingBalance :
                   Ret([remainingBalance |-> MathMax(Zero, remainingBalance),
                        principalPaid |-> principalPaid, interestPaid |-> Zero,
                        paymentsMade |-> paymentsMade,
                        paymentsRemaining |-> FSub(termMonths, paymentsMade)])))
         ELSE Let(FAdd(One, FDiv(FDiv(rate, Hundred), Twelve)), LAMBDA base :
              Let(MathPow(base, ToInt(termMonths)), LAMBDA growth :
              Then(RoundMoney2(MathMax(Zero,
                       FDiv(FMul(principal,
                                 FSub(growth, MathPow(base, ToInt(paymentsMade)))),
                            FSub(growth, One)))),
                   LAMBDA roundedBalance :
              Then(RoundMoney2(FSub(principal, roundedBalance)),
                   LAMBDA principalPaid :
              Then(RoundMoney2(FMul(summary.monthlyPayment, paymentsMade)),
                   LAMBDA totalPaid :
              Then(RoundMoney2(FSub(totalPaid, principalPaid)),
                   LAMBDA interestPaid :
                   Ret([remainingBalance |-> roundedBalance,
                        principalPaid |-> principalPaid,
                        interestPaid |-> interestPaid,
                        paymentsMade |-> paymentsMade,
                        paymentsRemaining |-> FSub(termMonths, paymentsMade)]))))))))

\* calculateLoanBalance without any validation of its arguments
CalculateLoanBalanceUnchecked(principal, rate, termMonths, paymentsMade) ==
    LoanBalanceOf(principal, rate, termMonths, paymentsMade)

CalculateLoanBalance(principal, rate, termMonths, paymentsMade) ==
    IF ~IsValidAmount(principal) \/ FLe(principal, Zero) THEN Throw
    ELSE IF ~IsValidAmount(rate) \/ FLt(rate, Zero) THEN Throw
    ELSE IF ~IsInteger(termMonths) \/ FLe(termMonths, Zero) THEN Throw
    ELSE IF \/ ~IsInteger(paymentsMade)
            \/ FLt(paymentsMade, Zero)
            \/ FGt(paymentsMade, termMonths) THEN Throw
    ELSE LoanBalanceOf(principal, rate, termMonths, paymentsMade)

\* A risk level that is 'low' at every utilization
RiskLevelAlwaysLow(utilizationPercentage) == "low"

\* The riskLevel of calculateCreditUtilization
RiskLevel(utilizationPercentage) ==
    IF FLe(utilizationPercentage, Ten) THEN "low"
    ELSE IF FLe(utilizationPercentage, Thirty) THEN "medium"
    ELSE "high"

CalculateCreditUtilization(usedCredit, totalCredit) ==
    IF ~IsValidAmount(usedCredit) \/ FLt(usedCredit, Zero) THEN Throw
    ELSE IF ~IsValidAmount(totalCredit) \/ FLe(totalCredit, Zero) THEN Throw
    ELSE IF FGt(usedCredit, totalCredit) THEN Throw
    ELSE Then(RoundMoney2(FMul(FDiv(usedCredit, totalCredit), Hundred)),
              LAMBDA utilizationPercentage :
         Then(RoundMoney2(FSub(totalCredit, usedCredit)), LAMBDA availableCredit :
              Ret([utilizationPercentage |-> utilizationPercentage,
                   usedCredit |-> usedCredit, totalCredit |-> totalCredit,
                   availableCredit |-> availableCredit,
                   riskLevel |-> RiskLevel(utilizationPercentage)])))

CalculateMinimumPayment(balance, rate, minimumRate) ==
    IF ~IsValidAmount(balance) \/ FLt(balance, Zero) THEN Throw
    ELSE IF ~IsValidAmount(rate) \/ FLt(rate, Zero) THEN Throw
    ELSE IF \/ ~IsValidAmount(minimumRate)
            \/ FLe(minimumRate, Zero)
            \/ FGt(minimumRate, Hundred) THEN Throw
    ELSE Then(RoundMoney2(FMul(balance, FDiv(FDiv(rate, Hundred), Twelve))),
              LAMBDA interestPortion :
         Then(RoundMoney2(FDiv(FMul(balance, minimumRate), Hundred)),
              LAMBDA minimumBasedOnRate :
         Let(MathMax(minimumBasedOnRate, FAdd(interestPortion, Fifteen)),
             LAMBDA minimumPayment :
         Then(RoundMoney2(FSub(minimumPayment, interestPortion)),
              LAMBDA principalPortion :
         Then(RoundMoney2(minimumPayment), LAMBDA roundedPayment :
              Ret([minimumPayment |-> roundedPayment, balance |-> balance,
                   interestRate |-> rate, minimumRate |-> minimumRate,
                   interestPortion |-> interestPortion,
                   principalPortion |-> principalPortion]))))))

\* The result of calculatePayoffTime once monthsToPayoff is known
PayoffResult(balance, payment, rate, monthsToPayoff) ==
    Then(RoundMoney2(FMul(payment, monthsToPayoff)), LAMBDA totalAmountPaid :
    Then(IF FEq(rate, Zero) THEN Ret(Zero)
         ELSE RoundMoney2(FSub(totalAmountPaid, balance)), LAMBDA totalInterestPaid :
    Then(RoundMoney2(FDiv(monthsToPayoff, Twelve)), LAMBDA yearsToPayoff :
         Ret([monthsToPayoff |-> monthsToPayoff, yearsToPayoff |-> yearsToPayoff,
              totalInterestPaid |-> totalInterestPaid,
              totalAmountPaid |-> totalAmountPaid, monthlyPayment |-> payment]))))

\* The results calculatePayoffTime may give: one for each pair of values
\* Math.log may return
CalculatePayoffTime(balance, payment, rate) ==
    IF ~IsValidAmount(balance) \/ FLe(balance, Zero) THEN {Throw}
    ELSE IF ~IsValidAmount(payment) \/ FLe(payment, Zero) THEN {Throw}
    ELSE IF ~IsValidAmount(rate) \/ FLt(rate, Zero) THEN {Throw}
    ELSE Let(FDiv(FDiv(rate, Hundred), Twelve), LAMBDA monthlyRate :
         Let(FMul(balance, monthlyRate), LAMBDA monthlyInterest :
         IF FLe(payment, monthlyInterest) THEN {Throw}
         ELSE IF FEq(rate, Zero)
         THEN {PayoffResult(balance, payment, rate,
                            MathCeil(FDiv(balance, payment)))}
         ELSE Let(MathLog(FSub(One, FDiv(monthlyInterest, payment))), LAMBDA logs :
              Let(MathLog(FAdd(One, monthlyRate)), LAMBDA growths :
              {PayoffResult(balance, payment, rate,
                            MathCeil(FDiv(FNeg(logs[i]), growths[j]))) :
                   i \in 1..2, j \in 1..2}))))

(***************************************************************************)
(* subscription/subscription.ts                                            *)
(***************************************************************************)
CalculateProrationAmount(amount, daysUsed, totalDays) ==
    IF \/ ~IsValidAmount(amount)
       \/ ~IsValidAmount(daysUsed)
       \/ ~IsValidAmount(totalDays) THEN Throw
    ELSE IF FLt(amount, Zero) THEN Throw
    ELSE IF FLt(daysUsed, Zero) \/ FLe(totalDays, Zero) THEN Throw
    ELSE IF FGt(daysUsed, totalDays) THEN Throw
    ELSE Let(FMul(FDiv(daysUsed, totalDays), Hundred), LAMBDA usagePercentage :
         Then(RoundMoney2(FDiv(FMul(amount, daysUsed), totalDays)),
              LAMBDA proratedAmount :
         Then(RoundMoney2(amount), LAMBDA fullAmount :
         Then(RoundMoney2(usagePercentage), LAMBDA roundedPercentage :
              Ret([proratedAmount |-> proratedAmount, fullAmount |-> fullAmount,
                   daysUsed |-> MathRound(daysUsed),
                   totalDays |-> MathRound(totalDays),
                   usagePercentage |-> roundedPercentage])))))

\* A SubscriptionPlan, of which the functions read the monthlyAmount
Plan(monthlyAmount) == <<"plan", monthlyAmount>>

CalculateUpgradeCredit(oldPlan, newPlan, daysRemaining) ==
    IF oldPlan = Undefined \/ newPlan = Undefined THEN Throw
    ELSE IF ~IsValidAmount(oldPlan[2]) \/ ~IsValidAmount(newPlan[2]) THEN Throw
    ELSE IF \/ ~IsValidAmount(daysRemaining)
            \/ FLt(daysRemaining, Zero)
            \/ FGt(daysRemaining, FromInt(31)) THEN Throw
    ELSE Let(MathMin(daysRemaining, Thirty), LAMBDA effectiveDaysRemaining :
         Let(FDiv(FMul(oldPlan[2], effectiveDaysRemaining), Thirty),
             LAMBDA oldPlanRemainingValue :
         Let(FDiv(FMul(newPlan[2], effectiveDaysRemaining), Thirty),
             LAMBDA newPlanProratedCost :
         Then(RoundMoney2(oldPlanRemainingValue), LAMBDA creditAmount :
         Then(RoundMoney2(newPlanProratedCost), LAMBDA roundedCost :
         Then(RoundMoney2(FSub(newPlanProratedCost, oldPlanRemainingValue)),
              LAMBDA netAmountDue :
              Ret([creditAmount |-> creditAmount,
                   oldPlanRemainingValue |-> creditAmount,
                   newPlanProratedCost |-> roundedCost,
                   netAmountDue |-> netAmountDue,
                   daysRemaining |-> MathRound(effectiveDaysRemaining)])))))))

\* A Date holding the local calendar day d of month m (0 = January) of year y;
\* the time of day is carried along unchanged and left out
Date(y, m, d) == <<"date", y, m, d>>

\* new Date('invalid')
InvalidDate == <<"invalid date">>

IsLeapYear(y) == y % 4 = 0 /\ (y % 100 # 0 \/ y % 400 = 0)

DaysInMonth(y, m) ==
    IF m = 1 THEN (IF IsLeapYear(y) THEN 29 ELSE 28)
    ELSE IF m \in {3, 5, 8, 10} THEN 30 ELSE 31

\* The date of day d of month m of year y, for m >= 0 and d >= 1: months
\* past December run into the next years and days past the end of a month
\* into the next months
RECURSIVE MakeDate(_, _, _)
MakeDate(y, m, d) ==
    IF m > 11 THEN MakeDate(y + 1, m - 12, d)
    ELSE IF d > DaysInMonth(y, m) THEN MakeDate(y, m + 1, d - DaysInMonth(y, m))
    ELSE Date(y, m, d)

\* date.setDate(day), date.setMonth(month), date.setFullYear(year)
SetDate(date, day) == MakeDate(date[2], date[3], day)

SetMonth(date, month) == MakeDate(date[2], month, date[4])

SetFullYear(date, year) == MakeDate(year, date[3], date[4])

CalculateNextPaymentDate(startDate, frequency) ==
    IF startDate = InvalidDate THEN Throw
    ELSE CASE frequency = "daily" -> Ret(SetDate(startDate, startDate[4] + 1))
           [] frequency = "weekly" -> Ret(SetDate(startDate, startDate[4] + 7))
           [] frequency = "bi-weekly" -> Ret(SetDate(startDate, startDate[4] + 14))
           [] frequency = "monthly" -> Ret(SetMonth(startDate, startDate[3] + 1))
           [] frequency = "quarterly" -> Ret(SetMonth(startDate, startDate[3] + 3))
           [] frequency = "semi-annually" -> Ret(SetMonth(startDate, startDate[3] + 6))
           [] frequency = "annually" -> Ret(SetFullYear(startDate, startDate[2] + 1))
           [] OTHER -> Throw

(***************************************************************************)
(* utils: formatAccountNumber.  A string is Str of the sequence of its     *)
(* characters; the counts and sizes of the options are integers.           *)
(***************************************************************************)
Digits == {"0", "1", "2", "3", "4", "5", "6", "7", "8", "9"}

\* chars.trim(), for strings whose only whitespace is the space
RECURSIVE Trim(_)
Trim(chars) ==
    IF chars = <<>> THEN chars
    ELSE IF Head(chars) = " " THEN Trim(Tail(chars))
    ELSE IF chars[Len(chars)] = " " THEN Trim(SubSeq(chars, 1, Len(chars) - 1))
    ELSE chars

\* chars.replace(/\s+/g, '')
RemoveWhitespace(chars) == SelectSeq(chars, LAMBDA c : c # " ")

\* /^\d+$/.test(chars)
IsDigits(chars) == chars # <<>> /\ \A i \in 1..Len(chars) : chars[i] \in Digits

\* An index of substring brought into 0..length
Clamp(i, length) == IF i < 0 THEN 0 ELSE IF i > length THEN length ELSE i

\* chars.substring(start, end): the characters from index start (counted
\* from 0) up to end, end left out, the two swapped when start > end
Substring(chars, start, end) ==
    Let(Clamp(start, Len(chars)), LAMBDA from :
    Let(Clamp(end, Len(chars)), LAMBDA to :
    IF from <= to THEN SubSeq(chars, from + 1, to) ELSE SubSeq(chars, to + 1, from)))

\* A repeat that gives the string once
RepeatOnce(chars, count) == chars

\* chars.repeat(count)
RECURSIVE Repeat(_, _)
Repeat(chars, count) == IF count = 0 THEN <<>> ELSE chars \o Repeat(chars, count - 1)

\* groups.join(separator)
RECURSIVE Join(_, _)
Join(groups, separator) ==
    IF groups = <<>> THEN <<>>
    ELSE IF Len(groups) = 1 THEN groups[1]
    ELSE groups[1] \o separator \o Join(Tail(groups), separator)

\* for (let i = 0; i < formatted.length; i += groupSize) groups.push(...)
RECURSIVE GroupLoop(_, _, _, _)
GroupLoop(formatted, i, groupSize, groups) ==
    IF i < Len(formatted)
    THEN GroupLoop(formatted, i + groupSize, groupSize,
                   Append(groups, Substring(formatted, i, i + groupSize)))
    ELSE groups

\* The option of that name, or its default when the options do not hold it
Option(options, name, default) ==
    IF name \in DOMAIN options THEN options[name] ELSE default

Masked(cleanNumber, maskChar, showFirst, showLast) ==
    Substring(cleanNumber, 0, showFirst)
        \o Repeat(maskChar, Len(cleanNumber) - showFirst - showLast)
        \o Substring(cleanNumber, Len(cleanNumber) - showLast, Len(cleanNumber))

FormatAccountNumber(accountNumber, options) ==
    IF accountNumber[1] # "string" THEN Throw
    ELSE IF Trim(accountNumber[2]) = <<>> THEN Throw
    ELSE Let(RemoveWhitespace(accountNumber[2]), LAMBDA cleanNumber :
         Let(Option(options, "maskChar", <<"*">>), LAMBDA maskChar :
         Let(Option(options, "showFirst", 4), LAMBDA showFirst :
         Let(Option(options, "showLast", 4), LAMBDA showLast :
         Let(Option(options, "applyMask", TRUE), LAMBDA applyMask :
         Let(Option(options, "separator", <<" ">>), LAMBDA separator :
         Let(Option(options, "groupSize", 4), LAMBDA groupSize :
         IF ~IsDigits(cleanNumber) THEN Throw
         ELSE IF showFirst < 0 \/ showLast < 0 THEN Throw
         ELSE IF groupSize <= 0 THEN Throw
         ELSE Let(applyMask /\ Len(cleanNumber) > showFirst + showLast, LAMBDA masking :
              Let(IF masking THEN Masked(cleanNumber, maskChar, showFirst, showLast)
                  ELSE cleanNumber, LAMBDA formatted :
              Let(IF masking THEN Len(cleanNumber) - showFirst - showLast ELSE 0,
                  LAMBDA maskedCharacters :
              Ret([formatted |->
                       Str(IF separator # <<>> /\ groupSize > 0
                           THEN Join(GroupLoop(formatted, 0, groupSize, <<>>), separator)
                           ELSE formatted),
                   original |-> accountNumber,
                   isMasked |-> applyMask /\ maskedCharacters > 0,
                   maskedCharacters |-> maskedCharacters])))))))))))

(***************************************************************************)
(* Currency conversion                                                     *)
(***************************************************************************)
\* An optional number that the caller left out: undefined
NotGiven == [k |-> "undefined", s |-> 1, m |-> <<>>, e |-> 0]

\* DEFAULT_RATES as <<from, to, rate>>
DefaultRates ==
    {<<(<<"U", "S", "D">>), <<"E", "U", "R">>, Dec(85, 2)>>,
     <<(<<"U", "S", "D">>), <<"G", "B", "P">>, Dec(73, 2)>>,
     <<(<<"U", "S", "D">>), <<"J", "P", "Y">>, Dec(110, 0)>>,
     <<(<<"U", "S", "D">>), <<"N", "G", "N">>, Dec(460, 0)>>,
     <<(<<"E", "U", "R">>), <<"U", "S", "D">>, Dec(118, 2)>>,
     <<(<<"E", "U", "R">>), <<"G", "B", "P">>, Dec(86, 2)>>,
     <<(<<"E", "U", "R">>), <<"J", "P", "Y">>, Dec(129, 0)>>,
     <<(<<"E", "U", "R">>), <<"N", "G", "N">>, Dec(542, 0)>>,
     <<(<<"G", "B", "P">>), <<"U", "S", "D">>, Dec(137, 2)>>,
     <<(<<"G", "B", "P">>), <<"E", "U", "R">>, Dec(116, 2)>>,
     <<(<<"G", "B", "P">>), <<"J", "P", "Y">>, Dec(150, 0)>>,
     <<(<<"G", "B", "P">>), <<"N", "G", "N">>, Dec(630, 0)>>,
     <<(<<"J", "P", "Y">>), <<"U", "S", "D">>, Dec(91, 4)>>,
     <<(<<"J", "P", "Y">>), <<"E", "U", "R">>, Dec(77, 4)>>,
     <<(<<"J", "P", "Y">>), <<"G", "B", "P">>, Dec(67, 4)>>,
     <<(<<"J", "P", "Y">>), <<"N", "G", "N">>, Dec(418, 2)>>,
     <<(<<"N", "G", "N">>), <<"U", "S", "D">>, Dec(22, 4)>>,
     <<(<<"N", "G", "N">>), <<"E", "U", "R">>, Dec(18, 4)>>,
     <<(<<"N", "G", "N">>), <<"G", "B", "P">>, Dec(16, 4)>>,
     <<(<<"N", "G", "N">>), <<"J", "P", "Y">>, Dec(24, 2)>>}

\* DEFAULT_RATES[from]?.[to]: the rates on record for the pair, none or one
DefaultRate(from, to) == {r \in DefaultRates : r[1] = from /\ r[2] = to}

GetExchangeRate(from, to, customRate) ==
    IF customRate # NotGiven THEN Ret(customRate)
    ELSE IF from = to THEN Ret(One)
    ELSE IF DefaultRate(from, to) = {} THEN Throw
    ELSE Ret((CHOOSE r \in DefaultRate(from, to) : TRUE)[3])

\* One ConversionResult; now is what the clock reads during the call: new Date()
Conversion(amount, from, to, exchangeRate, now) ==
    [originalAmount |-> amount, convertedAmount |-> FMul(amount, exchangeRate),
     fromCurrency |-> from, toCurrency |-> to, exchangeRate |-> exchangeRate,
     timestamp |-> now]

UpperCaseOf(currency) == Str(ToUpperCase(currency[2]))

ConvertCurrency(amount, fromCurrency, toCurrency, rate, now) ==
    IF ~IsValidAmount(amount) THEN Throw
    ELSE IF ~IsValidCurrency(fromCurrency) THEN Throw
    ELSE IF ~IsValidCurrency(toCurrency) THEN Throw
    ELSE Then(GetExchangeRate(ToUpperCase(fromCurrency[2]), ToUpperCase(toCurrency[2]),
                              rate), LAMBDA exchangeRate :
              Ret(Conversion(amount, UpperCaseOf(fromCurrency), UpperCaseOf(toCurrency),
                             exchangeRate, now)))

ConvertWithFee(amount, rate, feePercentage, now) ==
    IF ~IsValidAmount(amount) THEN Throw
    ELSE IF ~IsValidAmount(rate) \/ FLe(rate, Zero) THEN Throw
    ELSE IF \/ ~IsValidAmount(feePercentage)
            \/ FLt(feePercentage, Zero)
            \/ FGt(feePercentage, Hundred) THEN Throw
    ELSE Let(FDiv(FMul(amount, feePercentage), Hundred), LAMBDA feeAmount :
         Let(FSub(amount, feeAmount), LAMBDA amountAfterFee :
             Ret([originalAmount |-> amount,
                  convertedAmount |-> FMul(amountAfterFee, rate),
                  fromCurrency |-> Str(<<>>), toCurrency |-> Str(<<>>),
                  exchangeRate |-> rate, timestamp |-> now,
                  feeAmount |-> feeAmount, feePercentage |-> feePercentage,
                  amountAfterFee |-> amountAfterFee])))

\* amounts.reduce((sum, amount) => sum + amount, 0), from the i-th amount on
RECURSIVE Reduce(_, _, _)
Reduce(amounts, i, sum) ==
    IF i > Len(amounts) THEN sum ELSE Reduce(amounts, i + 1, FAdd(sum, amounts[i]))

BulkConvert(amounts, fromCurrency, toCurrency, rate, now) ==
    IF Len(amounts) = 0 THEN Throw
    ELSE IF ~IsValidCurrency(fromCurrency) THEN Throw
    ELSE IF ~IsValidCurrency(toCurrency) THEN Throw
    ELSE IF \E i \in 1..Len(amounts) : ~IsValidAmount(amounts[i]) THEN Throw
    ELSE Then(GetExchangeRate(ToUpperCase(fromCurrency[2]), ToUpperCase(toCurrency[2]),
                              rate), LAMBDA exchangeRate :
         Let(Reduce(amounts, 1, Zero), LAMBDA totalOriginalAmount :
              Ret([conversions |->
                       [i \in 1..Len(amounts) |->
                           Conversion(amounts[i], UpperCaseOf(fromCurrency),
                                      UpperCaseOf(toCurrency), exchangeRate, now)],
                   totalOriginalAmount |-> totalOriginalAmount,
                   totalConvertedAmount |-> FMul(totalOriginalAmount, exchangeRate),
                   exchangeRate |-> exchangeRate,
                   fromCurrency |-> UpperCaseOf(fromCurrency),
                   toCurrency |-> UpperCaseOf(toCurrency)])))

(***************************************************************************)
(* subscription/subscription.ts: the comparison of plans.                  *)
(***************************************************************************)
\* An array of the items, for an argument that may be left out
Array(items) == <<"array", items>>

\* A SubscriptionPlan with the fields compareSubscriptionPlans reads: id and
\* name are strings, features is an Array of names, and what a plan does
\* not hold is Undefined or, for a number, NotGiven
SubscriptionPlan(id, name, monthlyAmount, annualDiscount, maxUsers, features) ==
    [id |-> id, name |-> name, monthlyAmount |-> monthlyAmount,
     annualDiscount |-> annualDiscount, maxUsers |-> maxUsers, features |-> features]

Twenty == [k |-> "num", s |-> 1, m |-> <<5>>, e |-> 2]

\* A number that is truthy: not 0, not NaN and not undefined
NumberTruthy(x) == x.k = "inf" \/ (x.k = "num" /\ ~IsZero(x))

\* plan.features?.length || 0
FeatureCount(features) == IF features = Undefined THEN 0 ELSE Len(features[2])

PlanAnalysis(plan) ==
    Let(IF NumberTruthy(plan.annualDiscount) THEN plan.annualDiscount ELSE Zero,
        LAMBDA annualDiscount :
    Let(FMul(plan.monthlyAmount, FSub(One, annualDiscount)), LAMBDA effectiveMonthlyRate :
    Let(FMul(effectiveMonthlyRate, Twelve), LAMBDA annualCost :
    Let(IF NumberTruthy(plan.maxUsers) THEN FDiv(annualCost, plan.maxUsers) ELSE NotGiven,
        LAMBDA costPerUser :
    Let(MathMax(Zero, FSub(Hundred, FMul(effectiveMonthlyRate, Two))), LAMBDA baseScore :
    Let(MathMin(Twenty, FMul(FromInt(FeatureCount(plan.features)), Two)),
        LAMBDA featureBonus :
    Let(MathMin(Hundred, FAdd(baseScore, featureBonus)), LAMBDA valueScore :
    Then(RoundMoney2(effectiveMonthlyRate), LAMBDA roundedRate :
    Then(RoundMoney2(annualCost), LAMBDA roundedCost :
    Then(IF NumberTruthy(costPerUser) THEN RoundMoney2(costPerUser) ELSE Ret(NotGiven),
         LAMBDA roundedCostPerUser :
    Then(RoundMoney(valueScore, One, "round"), LAMBDA roundedScore :
         Ret([plan |-> plan,
              effectiveMonthlyRate |-> roundedRate,
              annualCost |-> roundedCost,
              costPerUser |-> roundedCostPerUser,
              valueScore |-> roundedScore]))))))))))))

\* plans.map(plan => ...)
RECURSIVE MapPlans(_, _)
MapPlans(plans, planAnalyses) ==
    IF Len(planAnalyses) = Len(plans) THEN Ret(planAnalyses)
    ELSE Then(PlanAnalysis(plans[Len(planAnalyses) + 1]), LAMBDA analysis :
              MapPlans(plans, Append(planAnalyses, analysis)))

\* A reduce that takes the later of two plans of equal score
RECURSIVE ReduceBestTakesLater(_, _, _)
ReduceBestTakesLater(planAnalyses, i, best) ==
    IF i > Len(planAnalyses) THEN best
    ELSE ReduceBestTakesLater(planAnalyses, i + 1,
                    IF FGe(planAnalyses[i].valueScore, best.valueScore)
                    THEN planAnalyses[i] ELSE best)

\* planAnalyses.reduce((best, current) =>
\*     current.valueScore > best.valueScore ? current : best)
RECURSIVE ReduceBest(_, _, _)
ReduceBest(planAnalyses, i, best) ==
    IF i > Len(planAnalyses) THEN best
    ELSE ReduceBest(planAnalyses, i + 1,
                    IF FGt(planAnalyses[i].valueScore, best.valueScore)
                    THEN planAnalyses[i] ELSE best)

\* Math.max(...costs) and Math.min(...costs), from i on
RECURSIVE MaxOf(_, _, _)
MaxOf(costs, i, acc) ==
    IF i > Len(costs) THEN acc ELSE MaxOf(costs, i + 1, MathMax(acc, costs[i]))

RECURSIVE MinOf(_, _, _)
MinOf(costs, i, acc) ==
    IF i > Len(costs) THEN acc ELSE MinOf(costs, i + 1, MathMin(acc, costs[i]))

CompareSubscriptionPlansOf(plans) ==
    IF Len(plans) = 0 THEN Throw
    ELSE IF Len(plans) = 1 THEN Throw
    ELSE IF \E i \in 1..Len(plans) :
               \/ ~Truthy(plans[i].id)
               \/ ~Truthy(plans[i].name)
               \/ ~IsValidAmount(plans[i].monthlyAmount) THEN Throw
    ELSE Then(MapPlans(plans, <<>>), LAMBDA planAnalyses :
         Let([i \in 1..Len(planAnalyses) |-> planAnalyses[i].annualCost], LAMBDA costs :
         Then(RoundMoney2(FSub(MaxOf(costs, 1, Inf(-1)), MinOf(costs, 1, Inf(1)))),
              LAMBDA maxSavings :
              Ret([plans |-> planAnalyses,
                   recommendedPlan |-> ReduceBest(planAnalyses, 2, planAnalyses[1]),
                   maxSavings |-> maxSavings]))))

CompareSubscriptionPlans(plans) ==
    IF plans[1] # "array" THEN Throw ELSE CompareSubscriptionPlansOf(plans[2])

(***************************************************************************)
(* subscription/subscription.ts: recurring payments.                       *)
(***************************************************************************)
\* frequencyMultipliers[frequency]
FrequencyMultipliers(frequency) ==
    CASE frequency = "daily" -> FromInt(365)
      [] frequency = "weekly" -> FromInt(52)
      [] frequency = "bi-weekly" -> FromInt(26)
      [] frequency = "monthly" -> Twelve
      [] frequency = "quarterly" -> FromInt(4)
      [] frequency = "semi-annually" -> Two
      [] frequency = "annually" -> One
      [] OTHER -> NotGiven

CalculateAnnualEquivalent(amount, frequency) ==
    IF ~IsValidAmount(amount) THEN Throw
    ELSE IF FLt(amount, Zero) THEN Throw
    ELSE Let(FrequencyMultipliers(frequency), LAMBDA paymentsPerYear :
         IF ~NumberTruthy(paymentsPerYear) THEN Throw
         ELSE Then(RoundMoney2(FMul(amount, paymentsPerYear)), LAMBDA annualAmount :
              Then(RoundMoney2(amount), LAMBDA originalAmount :
                   Ret([annualAmount |-> annualAmount, originalAmount |-> originalAmount,
                        frequency |-> frequency, paymentsPerYear |-> paymentsPerYear]))))

\* frequencyToMonthlyMultiplier[frequency]
FrequencyToMonthlyMultiplier(frequency) ==
    CASE frequency = "daily" -> Dec(3044, 2)
      [] frequency = "weekly" -> Dec(433, 2)
      [] frequency = "bi-weekly" -> Dec(217, 2)
      [] frequency = "monthly" -> One
      [] frequency = "quarterly" -> FDiv(One, FromInt(3))
      [] frequency = "semi-annually" -> FDiv(One, FromInt(6))
      [] frequency = "annually" -> FDiv(One, Twelve)
      [] OTHER -> NotGiven

\* A number of payments that leaves out the payment under way
NumberOfPaymentsRoundedDown(duration, paymentsPerMonth) ==
    MathFloor(FMul(duration, paymentsPerMonth))

NumberOfPayments(duration, paymentsPerMonth) ==
    MathRound(FMul(duration, paymentsPerMonth))

CalculateTotalRecurringCost(amount, frequency, duration) ==
    IF ~IsValidAmount(amount) \/ ~IsValidAmount(duration) THEN Throw
    ELSE IF FLt(amount, Zero) THEN Throw
    ELSE IF FLe(duration, Zero) THEN Throw
    ELSE Let(FrequencyToMonthlyMultiplier(frequency), LAMBDA paymentsPerMonth :
         IF ~NumberTruthy(paymentsPerMonth) THEN Throw
         ELSE Let(NumberOfPayments(duration, paymentsPerMonth), LAMBDA numberOfPayments :
              Then(RoundMoney2(FMul(amount, numberOfPayments)), LAMBDA totalCost :
              Then(RoundMoney2(amount), LAMBDA amountPerPeriod :
              Then(RoundMoney2(duration), LAMBDA roundedDuration :
                   Ret([totalCost |-> totalCost, numberOfPayments |-> numberOfPayments,
                        amountPerPeriod |-> amountPerPeriod, frequency |-> frequency,
                        duration |-> roundedDuration, durationUnit |-> "months"]))))))

(***************************************************************************)
(* The calls.  A call is made with literal arguments; its action applies   *)
(* the function to the numbers the literals denote and records the result. *)
(***************************************************************************)
\* The literal of n cents
Cents(n) == <<"dec", n, 2>>

\* The literal of the integer n
Whole(n) == <<"dec", n, 0>>

\* Whether the literal l denotes a whole number of cents; the number of cents
IsCentsLit(l) == l[1] = "dec" /\ l[3] <= 2

LitCents(l) == IF l[3] = 0 THEN l[2] * 100 ELSE IF l[3] = 1 THEN l[2] * 10 ELSE l[2]

\* 10^d for the d of the decimal literals, d <= 6
TenTo(d) == <<1, 10, 100, 1000, 10000, 100000, 1000000>>[d + 1]

\* Whether the literal l denotes a positive integer; the integer
IsPosIntLit(l) == l[1] = "dec" /\ l[2] >= 1 /\ l[2] % TenTo(l[3]) = 0

LitInt(l) == l[2] \div TenTo(l[3])

\* Whether the number x is a whole number of cents, k / 100 as JavaScript
\* computes it, for |k| < 2^30; the k
CentsOf(x) == ToInt(MathRound(FMul(x, Hundred)))

IsCents(x) == IsNum(x) /\ Top(x) < 24 /\ x = Dec(CentsOf(x), 2)

\* The sum of a sequence of integers
RECURSIVE IntSum(_)
IntSum(ns) == IF ns = <<>> THEN 0 ELSE Head(ns) + IntSum(Tail(ns))

(***************************************************************************)
(* Loans: generateAmortizationSchedule on valid loans.                     *)
(***************************************************************************)
MaxTerm == 5

MaxPrincipalCents == 6

Principals == {Cents(n) : n \in 1..MaxPrincipalCents} \cup {Whole(1000), Cents(191862)}

Rates == {Whole(0), Whole(6), Whole(150)}

LoanCalls ==
    {[op |-> "generateAmortizationSchedule", principal |-> p, rate |-> r,
      termMonths |-> Whole(t)] : p \in Principals, r \in Rates, t \in 1..MaxTerm}

InitLoan == pc = "call" /\ call \in LoanCalls /\ res = Pending

CallGenerateAmortizationSchedule ==
    /\ pc = "call"
    /\ call.op = "generateAmortizationSchedule"
    /\ res' = GenerateAmortizationSchedule(Num(call.principal), Num(call.rate),
                                           Num(call.termMonths))
    /\ pc' = "done"
    /\ UNCHANGED call

NextLoan == CallGenerateAmortizationSchedule

SpecLoan == InitLoan /\ [][NextLoan]_vars

\* C1: every schedule returned for a valid loan ends with remainingBalance
\* exactly 0 in its last entry, and its principalAmount entries add up to
\* the original principal to the cent.
C1_ScheduleRepaysPrincipal ==
    (pc = "done" /\ call.op = "generateAmortizationSchedule" /\ res.ok) =>
        LET payments == res.v.payments
            paid     == Sum([i \in 1..Len(payments) |-> payments[i].principalAmount])
        IN  /\ FEq(payments[Len(payments)].remainingBalance, Zero)
            /\ RoundMoney2(paid) = RoundMoney2(Num(call.principal))

\* C2: in every returned schedule remainingBalance strictly decreases from
\* entry to entry, the first entry being strictly below the principal, and is
\* exactly 0 at the final entry.
C2_BalanceStrictlyDecreases ==
    (pc = "done" /\ call.op = "generateAmortizationSchedule" /\ res.ok) =>
        LET payments == res.v.payments
        IN  /\ FLt(payments[1].remainingBalance, Num(call.principal))
            /\ \A i \in 2..Len(payments) :
                   FLt(payments[i].remainingBalance, payments[i - 1].remainingBalance)
            /\ FEq(payments[Len(payments)].remainingBalance, Zero)

(***************************************************************************)
(* Allocation: splitAmount and distributeProportionally.                   *)
(***************************************************************************)
MaxCents == 7

MaxParts == 4

MaxDistCents == 2

MaxWeight == 2

MaxRatios == 2

\* 0.005, and 2^1020 (about 1.1e307)
HalfCent == <<"dec", 5, 3>>

Huge == <<"pow2", 1, 1020>>

SplitTotals ==
    {Cents(n) : n \in (-MaxCents)..MaxCents}
        \cup {Cents(30), Cents(115), Whole(100), Whole(-1), HalfCent, Huge}

PartCounts ==
    {Whole(n) : n \in (-1)..MaxParts}
        \cup {<<"dec", 15, 1>>, <<"nan", 0, 0>>, <<"inf", 1, 0>>}

DistTotals ==
    {Cents(n) : n \in (-MaxDistCents)..MaxDistCents}
        \cup {Cents(30), Whole(100), HalfCent, Huge}

Weights ==
    {Whole(w) : w \in 0..MaxWeight} \cup {Whole(-1), <<"nan", 0, 0>>, <<"inf", 1, 0>>}

RatioLists == UNION {[1..k -> Weights] : k \in 0..MaxRatios}

SplitCalls ==
    {[op |-> "splitAmount", totalAmount |-> t, numberOfParts |-> n] :
        t \in SplitTotals, n \in PartCounts}

DistCalls ==
    {[op |-> "distributeProportionally", totalAmount |-> t, ratios |-> r] :
        t \in DistTotals, r \in RatioLists}

InitAlloc ==
    /\ pc = "call"
    /\ (call \in SplitCalls \/ call \in DistCalls)
    /\ res = Pending

CallSplitAmount ==
    /\ pc = "call"
    /\ call.op = "splitAmount"
    /\ res' = SplitAmount(Num(call.totalAmount), Num(call.numberOfParts))
    /\ pc' = "done"
    /\ UNCHANGED call

CallDistributeProportionally ==
    /\ pc = "call"
    /\ call.op = "distributeProportionally"
    /\ res' = DistributeProportionally(
                  Num(call.totalAmount),
                  [i \in 1..Len(call.ratios) |-> Num(call.ratios[i])])
    /\ pc' = "done"
    /\ UNCHANGED call

NextAlloc == CallSplitAmount \/ CallDistributeProportionally

SpecAlloc == InitAlloc /\ [][NextAlloc]_vars

\* A finished call of splitAmount with a finite total and n a positive integer
SplitDone ==
    /\ pc = "done"
    /\ call.op = "splitAmount"
    /\ IsPosIntLit(call.numberOfParts)

\* C3 (as stated): for every finite total and every integer n >= 1,
\* splitAmount returns exactly n amounts whose exact sum equals the total.
C3_SplitSumsExactly ==
    SplitDone =>
        /\ res.ok
        /\ Len(res.v.amounts) = LitInt(call.numberOfParts)
        /\ FEq(Sum(res.v.amounts), Num(call.totalAmount))

\* C3 (amended): for every total that is a whole number of cents and every
\* integer n >= 1, splitAmount returns exactly n amounts, each a whole number
\* of cents, and their cents add up to the cents of the total.
C3_SplitSumsToTheCent ==
    (SplitDone /\ IsCentsLit(call.totalAmount)) =>
        /\ res.ok
        /\ Len(res.v.amounts) = LitInt(call.numberOfParts)
        /\ \A i \in 1..Len(res.v.amounts) : IsCents(res.v.amounts[i])
        /\ IntSum([i \in 1..Len(res.v.amounts) |-> CentsOf(res.v.amounts[i])])
               = LitCents(call.totalAmount)

\* C3 witness: splitAmount(100, 3) has returned 33.33, 33.33, 33.34
C3_Witness ==
    /\ SplitDone
    /\ call.totalAmount = Whole(100)
    /\ call.numberOfParts = Whole(3)
    /\ res.ok
    /\ res.v.amounts = <<Dec(3333, 2), Dec(3333, 2), Dec(3334, 2)>>

\* C4: in the result of splitAmount, with base the floor of total * 100 / n
\* in cents, every part is base or base plus one cent, the raised parts are
\* exactly the last k parts, where k for a whole-cent total is the shortfall
\* total - n * base in cents, and the returned remainder is 0.
C4_SplitIsEven ==
    (SplitDone /\ call.totalAmount[1] = "dec") =>
        LET n     == LitInt(call.numberOfParts)
            scale == TenTo(call.totalAmount[3])
            base  == (call.totalAmount[2] * 100) \div (scale * n)
        IN  /\ res.ok
            /\ Len(res.v.amounts) = n
            /\ \E k \in 0..n :
                   /\ \A i \in 1..n :
                          res.v.amounts[i] = Dec(IF i > n - k THEN base + 1 ELSE base, 2)
                   /\ IsCentsLit(call.totalAmount)
                          => k = LitCents(call.totalAmount) - n * base
            /\ FEq(res.v.remainder, Zero)

\* C4 witness: splitAmount(-0.07, 3) has returned -0.03, -0.02, -0.02: base
\* -0.03, and the last two parts raised by a cent
C4_Witness ==
    /\ SplitDone
    /\ call.totalAmount = Cents(-7)
    /\ call.numberOfParts = Whole(3)
    /\ res.ok
    /\ res.v.amounts = <<Dec(-3, 2), Dec(-2, 2), Dec(-2, 2)>>

\* Whether the literal l denotes a finite number that is not negative
IsWeightLit(l) == l[1] = "dec" /\ l[2] >= 0

\* A finished call of distributeProportionally with a non-empty list of
\* non-negative finite weights that are not all zero
DistDone ==
    /\ pc = "done"
    /\ call.op = "distributeProportionally"
    /\ call.ratios # <<>>
    /\ \A i \in 1..Len(call.ratios) : IsWeightLit(call.ratios[i])
    /\ \E i \in 1..Len(call.ratios) : call.ratios[i][2] > 0

\* C5 (as stated): for every finite total and valid weights,
\* distributeProportionally returns the parts, each the share rounded to the
\* cent, and remainder = total - sum(parts), so that
\* sum(parts) + remainder == total.
C5_PartsAndRemainderSumExactly ==
    DistDone =>
        /\ res.ok
        /\ FEq(res.v.remainder, FSub(Num(call.totalAmount), Sum(res.v.amounts)))
        /\ FEq(FAdd(Sum(res.v.amounts), res.v.remainder), Num(call.totalAmount))

\* C5 (amended): for every total that is a whole number of cents and valid
\* weights, every part is a whole number of cents within half a cent of the
\* exact share total * weight / sum(weights), in input order, the remainder is
\* a whole number of cents, and the cents of the parts and of the remainder
\* add up to the cents of the total; the remainder is in no part.
C5_PartsAndRemainderSumToTheCent ==
    (DistDone /\ IsCentsLit(call.totalAmount)) =>
        LET n       == Len(call.ratios)
            total   == LitCents(call.totalAmount)
            weights == [i \in 1..n |-> call.ratios[i][2]]
            sum     == IntSum(weights)
            parts   == [i \in 1..n |-> CentsOf(res.v.amounts[i])]
        IN  /\ res.ok
            /\ Len(res.v.amounts) = n
            /\ \A i \in 1..n :
                   /\ IsCents(res.v.amounts[i])
                   /\ 2 * sum * parts[i] - 2 * total * weights[i] <= sum
                   /\ 2 * total * weights[i] - 2 * sum * parts[i] <= sum
            /\ IsCents(res.v.remainder)
            /\ IntSum(parts) + CentsOf(res.v.remainder) = total

\* C5 witness: distributeProportionally(0.01, [1, 1]) has returned the parts
\* 0.01, 0.01 and the remainder -0.01
C5_Witness ==
    /\ DistDone
    /\ call.totalAmount = Cents(1)
    /\ call.ratios = <<Whole(1), Whole(1)>>
    /\ res.ok
    /\ res.v.amounts = <<Dec(1, 2), Dec(1, 2)>>
    /\ res.v.remainder = Dec(-1, 2)

\* Whether the arguments of the finished call are among the cases that fail:
\* numberOfParts not a positive integer; no weights, a weight negative or not
\* finite, or all weights zero
BadAllocation ==
    IF call.op = "splitAmount" THEN ~IsPosIntLit(call.numberOfParts)
    ELSE \/ call.ratios = <<>>
         \/ \E i \in 1..Len(call.ratios) : ~IsWeightLit(call.ratios[i])
         \/ \A i \in 1..Len(call.ratios) : call.ratios[i][2] = 0

\* C6 (as stated): for a finite total the allocators throw MonieUtilsError
\* exactly when numberOfParts is not a positive integer, the weights are
\* empty, a weight is negative or not finite, or all weights are zero; in
\* every other case they return a result.
C6_ThrowsExactlyOnBadArguments ==
    pc = "done" => (IF BadAllocation THEN res = Throw ELSE res.ok)

\* C6 (amended): the same, for a finite total whose magnitude is that of an
\* amount of money (here: a decimal literal), so that no step overflows.
C6_ThrowsExactlyOnBadArgumentsInRange ==
    (pc = "done" /\ call.totalAmount[1] = "dec") =>
        (IF BadAllocation THEN res = Throw ELSE res.ok)

\* C6 witness: distributeProportionally(1, [0, 0]) has thrown
C6_Witness ==
    /\ pc = "done"
    /\ call.op = "distributeProportionally"
    /\ call.totalAmount = Whole(100)
    /\ call.ratios = <<Whole(0), Whole(0)>>
    /\ res = Throw

(***************************************************************************)
(* Rounding: roundMoney in its four modes and the rounding utilities.  A   *)
(* caller may round a returned amount once more with the same arguments.   *)
(***************************************************************************)
MaxThousandths == 12

MaxPrecision == 2

RoundAmounts ==
    {<<"dec", n, 3>> : n \in (-MaxThousandths)..MaxThousandths}
        \cup {Cents(115), Cents(110), Cents(-115), <<"dec", 125, 3>>,
              <<"dec", -125, 3>>, <<"dec", 2125, 3>>, <<"dec", 2135, 3>>,
              <<"dec", 2145, 3>>, <<"dec", 2155, 3>>, <<"dec", 123456, 3>>,
              <<"dec", 12346, 4>>, <<"dec", -12346, 4>>, <<"dec", 146, 4>>,
              <<"dec", 15, 1>>, <<"dec", -15, 1>>, <<"dec", 25, 1>>, <<"dec", -25, 1>>}

Precisions == {Whole(p) : p \in 0..MaxPrecision}

RoundCalls ==
    {[op |-> "roundMoney", amount |-> a, precision |-> p, mode |-> m] :
        a \in RoundAmounts, p \in Precisions,
        m \in {"round", "floor", "ceil", "bankers"}}

BankersCalls ==
    {[op |-> "roundToBankersRounding", amount |-> a, precision |-> p, mode |-> m] :
        a \in RoundAmounts, p \in Precisions, m \in {"half-even", "half-odd"}}

TruncateCalls ==
    {[op |-> "truncateToDecimalPlaces", amount |-> a, precision |-> p, mode |-> ""] :
        a \in RoundAmounts, p \in Precisions}

CentCalls ==
    {[op |-> o, amount |-> a, precision |-> Whole(2), mode |-> ""] :
        o \in {"roundToNearestCent", "ceilToNearestCent"}, a \in RoundAmounts}

InitRound ==
    /\ pc = "call"
    /\ call \in RoundCalls \cup BankersCalls \cup TruncateCalls \cup CentCalls
    /\ res = Pending

\* The rounding call c applied to the amount x
Rounding(c, x) ==
    CASE c.op = "roundMoney" -> RoundMoney(x, Num(c.precision), c.mode)
      [] c.op = "roundToBankersRounding" ->
             RoundToBankersRounding(x, Num(c.precision), c.mode)
      [] c.op = "truncateToDecimalPlaces" ->
             TruncateToDecimalPlaces(x, Num(c.precision))
      [] c.op = "roundToNearestCent" -> RoundToNearestCent(x)
      [] c.op = "ceilToNearestCent" -> CeilToNearestCent(x)

CallRoundMoney ==
    /\ pc = "call"
    /\ call.op = "roundMoney"
    /\ res' = RoundMoney(Num(call.amount), Num(call.precision), call.mode)
    /\ pc' = "done"
    /\ UNCHANGED call

CallRoundToBankersRounding ==
    /\ pc = "call"
    /\ call.op = "roundToBankersRounding"
    /\ res' = RoundToBankersRounding(Num(call.amount), Num(call.precision), call.mode)
    /\ pc' = "done"
    /\ UNCHANGED call

CallTruncateToDecimalPlaces ==
    /\ pc = "call"
    /\ call.op = "truncateToDecimalPlaces"
    /\ res' = TruncateToDecimalPlaces(Num(call.amount), Num(call.precision))
    /\ pc' = "done"
    /\ UNCHANGED call

CallRoundToNearestCent ==
    /\ pc = "call"
    /\ call.op = "roundToNearestCent"
    /\ res' = RoundToNearestCent(Num(call.amount))
    /\ pc' = "done"
    /\ UNCHANGED call

CallCeilToNearestCent ==
    /\ pc = "call"
    /\ call.op = "ceilToNearestCent"
    /\ res' = CeilToNearestCent(Num(call.amount))
    /\ pc' = "done"
    /\ UNCHANGED call

\* The caller rounds the returned amount again, with the same arguments
RoundAgain ==
    /\ pc = "done"
    /\ res.ok
    /\ call' = [call EXCEPT !.amount = <<"val", res.v, 0>>]
    /\ res' = Rounding(call, res.v)
    /\ pc' = "again"

NextRound ==
    \/ CallRoundMoney
    \/ CallRoundToBankersRounding
    \/ CallTruncateToDecimalPlaces
    \/ CallRoundToNearestCent
    \/ CallCeilToNearestCent
    \/ RoundAgain

SpecRound == InitRound /\ [][NextRound]_vars

\* C7: rounding is idempotent: in every mode and at every precision, rounding
\* an amount that the same rounding returned gives that amount back.
C7_RoundingIsIdempotent ==
    pc = "again" => res = Ret(Num(call.amount))

\* C8: roundToBankersRounding returns, for an amount whose scaled value
\* amount * 10^decimalPlaces has the fraction exactly 1/2, the adjacent even
\* integer (the odd one in mode 'half-odd') over 10^decimalPlaces, and for
\* every other amount the nearest integer over 10^decimalPlaces.
C8_BankersRoundsTiesOnly ==
    (pc = "done" /\ call.op = "roundToBankersRounding") =>
        LET p       == LitInt(call.precision)
            scaled  == call.amount[2] * TenTo(p)
            unit    == TenTo(call.amount[3])
            floor   == scaled \div unit
            twice   == 2 * (scaled - floor * unit)
            toFloor == IF call.mode = "half-even" THEN floor % 2 = 0 ELSE floor % 2 = 1
            nearest == IF twice < unit \/ (twice = unit /\ toFloor)
                       THEN floor ELSE floor + 1
        IN  res = Ret(Dec(nearest, p))

\* C9: nearest rounding is sign-symmetric: roundMoney(-x, p) is
\* -roundMoney(x, p) and roundToNearestCent(-x) is -roundToNearestCent(x).
C9_NearestRoundingIsSymmetric ==
    (/\ pc = "done"
     /\ res.ok
     /\ \/ call.op = "roundMoney" /\ call.mode = "round"
        \/ call.op = "roundToNearestCent") =>
        Rounding(call, FNeg(Num(call.amount))) = Ret(FNeg(res.v))

(***************************************************************************)
(* Money arithmetic: addMoney, subtractMoney, multiplyMoney, divideMoney.  *)
(***************************************************************************)
MaxMoneyCents == 4

MoneyOperands ==
    {Cents(n) : n \in (-MaxMoneyCents)..MaxMoneyCents}
        \cup {Whole(1), Whole(2), Whole(3), <<"dec", 5, 1>>, HalfCent, Cents(10050),
              <<"nan", 0, 0>>, <<"inf", 1, 0>>, <<"inf", -1, 0>>}

\* No currency argument, the empty string, supported codes in upper, lower
\* and mixed case, unsupported codes
Currencies ==
    {Undefined, Str(<<>>), Str(<<"U", "S", "D">>), Str(<<"u", "s", "d">>),
     Str(<<"N", "g", "n">>), Str(<<"X", "X", "X">>), Str(<<"U", "S">>)}

MoneyCalls ==
    {[op |-> o, amount1 |-> a, amount2 |-> b, currency |-> c] :
        o \in {"addMoney", "subtractMoney"}, a \in MoneyOperands, b \in MoneyOperands,
        c \in Currencies}
    \cup {[op |-> "multiplyMoney", amount |-> a, multiplier |-> b] :
            a \in MoneyOperands, b \in MoneyOperands}
    \cup {[op |-> "divideMoney", amount |-> a, divisor |-> b] :
            a \in MoneyOperands, b \in MoneyOperands}

InitMoney == pc = "call" /\ call \in MoneyCalls /\ res = Pending

CallAddMoney ==
    /\ pc = "call"
    /\ call.op = "addMoney"
    /\ res' = AddMoney(Num(call.amount1), Num(call.amount2), call.currency)
    /\ pc' = "done"
    /\ UNCHANGED call

CallSubtractMoney ==
    /\ pc = "call"
    /\ call.op = "subtractMoney"
    /\ res' = SubtractMoney(Num(call.amount1), Num(call.amount2), call.currency)
    /\ pc' = "done"
    /\ UNCHANGED call

CallMultiplyMoney ==
    /\ pc = "call"
    /\ call.op = "multiplyMoney"
    /\ res' = MultiplyMoney(Num(call.amount), Num(call.multiplier))
    /\ pc' = "done"
    /\ UNCHANGED call

CallDivideMoney ==
    /\ pc = "call"
    /\ call.op = "divideMoney"
    /\ res' = DivideMoney(Num(call.amount), Num(call.divisor))
    /\ pc' = "done"
    /\ UNCHANGED call

NextMoney == CallAddMoney \/ CallSubtractMoney \/ CallMultiplyMoney \/ CallDivideMoney

SpecMoney == InitMoney /\ [][NextMoney]_vars

\* The two operand literals of a call of the money arithmetic
Operands(c) ==
    CASE c.op \in {"addMoney", "subtractMoney"} -> <<c.amount1, c.amount2>>
      [] c.op = "multiplyMoney" -> <<c.amount, c.multiplier>>
      [] c.op = "divideMoney" -> <<c.amount, c.divisor>>

\* Exact numbers: finite records [k, s, m, e] whose significand may have any
\* length; x * y and x + y without rounding
ExactMul(x, y) == Canon(x.s * y.s, BMul(x.m, y.m), x.e + y.e)

ExactAligned(sx, a, sy, b, e) ==
    Let(BCmp(a, b), LAMBDA c :
        Canon(IF c >= 0 THEN sx ELSE sy,
              IF sx = sy THEN BAdd(a, b) ELSE IF c >= 0 THEN BSub(a, b) ELSE BSub(b, a),
              e))

ExactAdd(x, y) ==
    IF IsZero(x) THEN y
    ELSE IF IsZero(y) THEN x
    ELSE ExactAligned(x.s, BShl(x.m, IF x.e < y.e THEN 0 ELSE x.e - y.e),
                      y.s, BShl(y.m, IF x.e < y.e THEN y.e - x.e ELSE 0),
                      IF x.e < y.e THEN x.e ELSE y.e)

\* The exact result of the call c, as <<numerator, denominator>>
ExactResult(c) ==
    CASE c.op = "addMoney" -> <<ExactAdd(Num(c.amount1), Num(c.amount2)), One>>
      [] c.op = "subtractMoney" -> <<ExactAdd(Num(c.amount1), FNeg(Num(c.amount2))), One>>
      [] c.op = "multiplyMoney" -> <<ExactMul(Num(c.amount), Num(c.multiplier)), One>>
      [] c.op = "divideMoney" -> <<Num(c.amount), Num(c.divisor)>>

\* Whether k cents is a whole number of cents nearest to q[1] / q[2]:
\* |100 * q[1] - k * q[2]| <= |q[2]| / 2
IsNearestCent(k, q) ==
    CmpMag(ExactAdd(ExactMul(Hundred, q[1]), FNeg(ExactMul(FromInt(k), q[2]))),
           ExactMul(Half, q[2])) <= 0

\* A finished call of the money arithmetic on finite operands, without a
\* currency, the divisor not 0
MoneyDone ==
    /\ pc = "done"
    /\ call.op \in {"addMoney", "subtractMoney", "multiplyMoney", "divideMoney"}
    /\ Operands(call)[1][1] = "dec"
    /\ Operands(call)[2][1] = "dec"
    /\ call.op \in {"addMoney", "subtractMoney"} => call.currency = Undefined
    /\ call.op = "divideMoney" => Operands(call)[2][2] # 0

\* C10: for all finite operands addMoney, subtractMoney, multiplyMoney and
\* divideMoney (divisor not 0) return the exact result a + b, a - b, a * m,
\* a / d rounded to the nearest cent, a whole number of cents.
C10_ExactResultToNearestCent ==
    MoneyDone =>
        /\ res.ok
        /\ IsCents(res.v)
        /\ IsNearestCent(CentsOf(res.v), ExactResult(call))

\* The first operand of the call is not finite, or the second is not
NonFiniteOperand == Operands(call)[1][1] # "dec" \/ Operands(call)[2][1] # "dec"

\* C11: divideMoney throws MonieUtilsError whenever the divisor is 0, and
\* addMoney, subtractMoney, multiplyMoney and divideMoney throw it whenever an
\* operand is NaN or infinite; nothing is returned then.
C11_ThrowsOnZeroDivisorAndNonFinite ==
    (/\ pc = "done"
     /\ \/ NonFiniteOperand
        \/ call.op = "divideMoney" /\ FEq(Num(call.divisor), Zero))
        => res = Throw

C11_Witness ==
    /\ pc = "done"
    /\ call.op = "divideMoney"
    /\ call.amount = Whole(1)
    /\ call.divisor = Cents(0)
    /\ res = Throw

\* C12: when a currency string is supplied to addMoney or subtractMoney, the
\* empty string included, the call throws MonieUtilsError unless the code in
\* upper case is a key of the currency table, and with such a key it does
\* what the call without the currency does.
C12_SuppliedCurrencyMustBeKnown ==
    (/\ pc = "done"
     /\ call.op \in {"addMoney", "subtractMoney"}
     /\ call.currency[1] = "string")
        => IF ToUpperCase(call.currency[2]) \in CurrencyCodes
           THEN res = (IF call.op = "addMoney"
                       THEN AddMoney(Num(call.amount1), Num(call.amount2), Undefined)
                       ELSE SubtractMoney(Num(call.amount1), Num(call.amount2), Undefined))
           ELSE res = Throw

(***************************************************************************)
(* Loan payments: calculateMonthlyPayment.                                 *)
(***************************************************************************)
MaxPayCents == 5

MaxPayTerm == 4

PayPrincipals ==
    {Cents(n) : n \in (-1)..MaxPayCents}
        \cup {Whole(100), Whole(12000), Cents(191862), <<"nan", 0, 0>>, <<"inf", 1, 0>>}

PayRates == {Whole(0), Whole(6), <<"dec", 45, 1>>, Whole(-1), <<"nan", 0, 0>>}

PayTerms == {Whole(n) : n \in 0..MaxPayTerm} \cup {Whole(12), <<"dec", 15, 1>>}

PaymentCalls ==
    {[op |-> "calculateMonthlyPayment", principal |-> p, rate |-> r, termMonths |-> t] :
        p \in PayPrincipals, r \in PayRates, t \in PayTerms}

InitPayment == pc = "call" /\ call \in PaymentCalls /\ res = Pending

CallCalculateMonthlyPayment ==
    /\ pc = "call"
    /\ call.op = "calculateMonthlyPayment"
    /\ res' = CalculateMonthlyPayment(Num(call.principal), Num(call.rate),
                                      Num(call.termMonths))
    /\ pc' = "done"
    /\ UNCHANGED call

NextPayment == CallCalculateMonthlyPayment

SpecPayment == InitPayment /\ [][NextPayment]_vars

\* A finished calculateMonthlyPayment on a principal of a positive whole
\* number of cents, a rate that is finite and not negative, and a term that is
\* a positive integer
PaymentDone ==
    /\ pc = "done"
    /\ call.op = "calculateMonthlyPayment"
    /\ IsCentsLit(call.principal) /\ LitCents(call.principal) > 0
    /\ call.rate[1] = "dec" /\ call.rate[2] >= 0
    /\ IsPosIntLit(call.termMonths)

\* C13: every result of calculateMonthlyPayment on a valid loan, at a zero or
\* a positive rate, has totalAmount equal to monthlyPayment * termMonths
\* rounded to the nearest cent and totalInterest equal to totalAmount minus
\* the principal (compared in cents).
C13_TotalsAreConsistent ==
    (PaymentDone /\ res.ok) =>
        /\ IsCents(res.v.totalAmount)
        /\ IsNearestCent(CentsOf(res.v.totalAmount),
                         <<ExactMul(res.v.monthlyPayment, Num(call.termMonths)), One>>)
        /\ IsCents(res.v.totalInterest)
        /\ CentsOf(res.v.totalInterest)
               = CentsOf(res.v.totalAmount) - LitCents(call.principal)

\* A finished calculateMonthlyPayment on a valid loan at rate 0
ZeroRateDone == PaymentDone /\ call.rate[2] = 0

\* C14 as stated: at rate 0 the monthlyPayment is principal / termMonths
\* exactly, and totalInterest is 0.
C14_ZeroRatePaysExactShare ==
    ZeroRateDone =>
        /\ res.ok
        /\ FEq(res.v.monthlyPayment, FDiv(Num(call.principal), Num(call.termMonths)))
        /\ FEq(res.v.totalInterest, Zero)

\* C14, amended: at rate 0 the monthlyPayment is a whole number of cents
\* nearest to principal / termMonths (either neighbour at an exact half), so
\* it is principal / termMonths when that is a whole number of cents, and
\* totalInterest is 0.
C14_ZeroRatePaysShareToTheCent ==
    ZeroRateDone =>
        /\ res.ok
        /\ IsCents(res.v.monthlyPayment)
        /\ LET n == LitInt(call.termMonths)
               d == n * CentsOf(res.v.monthlyPayment) - LitCents(call.principal)
           IN  2 * (IF d < 0 THEN -d ELSE d) <= n
        /\ FEq(res.v.totalInterest, Zero)

C14_Witness ==
    /\ ZeroRateDone
    /\ call.principal = Whole(100)
    /\ call.termMonths = Whole(3)
    /\ res.ok
    /\ res.v.monthlyPayment = Dec(3333, 2)

(***************************************************************************)
(* Loan balances: calculateLoanBalance.                                    *)
(***************************************************************************)
MaxBalanceTerm == 3

BalancePrincipals ==
    {Cents(-1), Cents(0), Cents(1), Cents(5), Whole(1000), <<"nan", 0, 0>>,
     <<"inf", 1, 0>>}

BalanceRates == {Whole(0), Whole(6), Whole(-1)}

BalanceTerms == {Whole(n) : n \in 0..MaxBalanceTerm} \cup {<<"dec", 15, 1>>}

PaymentCounts ==
    {Whole(n) : n \in (-1)..(MaxBalanceTerm + 1)}
        \cup {<<"dec", 5, 1>>, <<"nan", 0, 0>>}

BalanceCalls ==
    {[op |-> "calculateLoanBalance", principal |-> p, rate |-> r, termMonths |-> t,
      paymentsMade |-> m] :
        p \in BalancePrincipals, r \in BalanceRates, t \in BalanceTerms,
        m \in PaymentCounts}

InitBalance == pc = "call" /\ call \in BalanceCalls /\ res = Pending

CallCalculateLoanBalance ==
    /\ pc = "call"
    /\ call.op = "calculateLoanBalance"
    /\ res' = CalculateLoanBalance(Num(call.principal), Num(call.rate),
                                   Num(call.termMonths), Num(call.paymentsMade))
    /\ pc' = "done"
    /\ UNCHANGED call

NextBalance == CallCalculateLoanBalance

SpecBalance == InitBalance /\ [][NextBalance]_vars

\* The literal l denotes a number > 0; a number >= 0
IsPositiveLit(l) == (l[1] = "dec" /\ l[2] > 0) \/ (l[1] = "inf" /\ l[2] > 0)

IsNonNegativeLit(l) == (l[1] = "dec" /\ l[2] >= 0) \/ (l[1] = "inf" /\ l[2] > 0)

\* The literal l denotes an integer
IsIntLit(l) == l[1] = "dec" /\ l[2] % TenTo(l[3]) = 0

\* The arguments of the calculateLoanBalance call are the ones the claim
\* requires: principal > 0, rate >= 0, termMonths a positive integer,
\* paymentsMade an integer from 0 to termMonths
BalanceArgumentsOk ==
    /\ IsPositiveLit(call.principal)
    /\ IsNonNegativeLit(call.rate)
    /\ IsPosIntLit(call.termMonths)
    /\ IsIntLit(call.paymentsMade)
    /\ LitInt(call.paymentsMade) >= 0
    /\ LitInt(call.paymentsMade) <= LitInt(call.termMonths)

BalanceDone == pc = "done" /\ call.op = "calculateLoanBalance"

\* C15: calculateLoanBalance throws MonieUtilsError unless principal > 0,
\* rate >= 0, termMonths is a positive integer and paymentsMade is an integer
\* from 0 to termMonths; with paymentsMade 0 (and a finite principal) it
\* returns the principal as remainingBalance, 0 paid, and termMonths payments
\* remaining; every result has paymentsMade + paymentsRemaining = termMonths.
C15_LoanBalanceValidatesAndCounts ==
    BalanceDone =>
        /\ ~BalanceArgumentsOk => res = Throw
        /\ (BalanceArgumentsOk /\ call.principal[1] = "dec"
                /\ LitInt(call.paymentsMade) = 0)
               => /\ res.ok
                  /\ res.v.remainingBalance = Num(call.principal)
                  /\ res.v.principalPaid = Zero
                  /\ res.v.interestPaid = Zero
                  /\ res.v.paymentsRemaining = Num(call.termMonths)
        /\ res.ok => /\ res.v.paymentsMade = Num(call.paymentsMade)
                     /\ FEq(FAdd(res.v.paymentsMade, res.v.paymentsRemaining),
                            Num(call.termMonths))

C15_Witness ==
    /\ BalanceDone
    /\ call.principal = Whole(1000)
    /\ call.rate = Whole(6)
    /\ call.termMonths = Whole(3)
    /\ call.paymentsMade = Whole(0)
    /\ res.ok
    /\ res.v.paymentsRemaining = Num(Whole(3))

(***************************************************************************)
(* Credit utilization: calculateCreditUtilization.                         *)
(***************************************************************************)
MaxUsedCents == 4

MaxTotalCents == 5

UsedCredits ==
    {Cents(n) : n \in (-1)..MaxUsedCents}
        \cup {Whole(1000), Cents(100040), Cents(100060), Whole(2500), Whole(3000),
              Cents(300040), Cents(300060), Whole(10000), <<"nan", 0, 0>>,
              <<"inf", 1, 0>>}

TotalCredits ==
    {Cents(n) : n \in (-1)..MaxTotalCents}
        \cup {Whole(10000), <<"nan", 0, 0>>, <<"inf", 1, 0>>}

UtilizationCalls ==
    {[op |-> "calculateCreditUtilization", usedCredit |-> u, totalCredit |-> t] :
        u \in UsedCredits, t \in TotalCredits}

InitUtilization == pc = "call" /\ call \in UtilizationCalls /\ res = Pending

CallCalculateCreditUtilization ==
    /\ pc = "call"
    /\ call.op = "calculateCreditUtilization"
    /\ res' = CalculateCreditUtilization(Num(call.usedCredit), Num(call.totalCredit))
    /\ pc' = "done"
    /\ UNCHANGED call

NextUtilization == CallCalculateCreditUtilization

SpecUtilization == InitUtilization /\ [][NextUtilization]_vars

UtilizationDone == pc = "done" /\ call.op = "calculateCreditUtilization"

\* The arguments the claim has the call fail on: a non-finite one, used < 0,
\* total <= 0, used > total
BadUtilization ==
    \/ call.usedCredit[1] # "dec"
    \/ call.totalCredit[1] # "dec"
    \/ call.usedCredit[2] < 0
    \/ call.totalCredit[2] <= 0
    \/ LitCents(call.usedCredit) > LitCents(call.totalCredit)

\* The result has availableCredit = total - used in cents and a
\* utilizationPercentage of two digits nearest to used / total * 100
UtilizationFigures ==
    /\ res.ok
    /\ IsCents(res.v.availableCredit)
    /\ CentsOf(res.v.availableCredit)
           = LitCents(call.totalCredit) - LitCents(call.usedCredit)
    /\ IsCents(res.v.utilizationPercentage)
    /\ IsNearestCent(CentsOf(res.v.utilizationPercentage),
                     <<ExactMul(Hundred, FromInt(LitCents(call.usedCredit))),
                       FromInt(LitCents(call.totalCredit))>>)

\* C16 as stated: calculateCreditUtilization throws on bad arguments;
\* otherwise availableCredit is total - used, utilizationPercentage is
\* used / total * 100 rounded to 2 digits, and riskLevel is 'low' when
\* used / total * 100 <= 10, 'high' when it is > 30, 'medium' in between.
C16_RiskFollowsUtilization ==
    UtilizationDone =>
        IF BadUtilization THEN res = Throw
        ELSE /\ UtilizationFigures
             /\ res.v.riskLevel
                    = (IF 10 * LitCents(call.usedCredit) <= LitCents(call.totalCredit)
                       THEN "low"
                       ELSE IF 10 * LitCents(call.usedCredit)
                                   > 3 * LitCents(call.totalCredit)
                            THEN "high" ELSE "medium")

\* C16, amended: as above, with the riskLevel following the returned
\* utilizationPercentage, the rounded one: 'low' when it is <= 10, 'high' when
\* it is > 30, 'medium' in between.
C16_RiskFollowsRoundedUtilization ==
    UtilizationDone =>
        IF BadUtilization THEN res = Throw
        ELSE /\ UtilizationFigures
             /\ res.v.riskLevel
                    = (IF CentsOf(res.v.utilizationPercentage) <= 1000 THEN "low"
                       ELSE IF CentsOf(res.v.utilizationPercentage) > 3000
                            THEN "high" ELSE "medium")

C16_Witness ==
    /\ UtilizationDone
    /\ call.usedCredit = Whole(2500)
    /\ call.totalCredit = Whole(10000)
    /\ res.ok
    /\ res.v.utilizationPercentage = Num(Whole(25))
    /\ res.v.riskLevel = "medium"
    /\ res.v.availableCredit = Num(Whole(7500))

(***************************************************************************)
(* Minimum payments: calculateMinimumPayment.                              *)
(***************************************************************************)
MaxMinimumCents == 3

MinimumBalances ==
    {Cents(n) : n \in (-1)..MaxMinimumCents}
        \cup {Whole(1000), Whole(5000), Cents(1528), Cents(2793146), Whole(100000),
              <<"nan", 0, 0>>}

MinimumInterestRates == {Whole(0), Whole(6), Whole(18), Cents(1999), Whole(-1)}

MinimumRates ==
    {Whole(0), Whole(2), <<"dec", 25, 1>>, Whole(3), Whole(100), Whole(101),
     <<"inf", 1, 0>>}

MinimumCalls ==
    {[op |-> "calculateMinimumPayment", balance |-> b, rate |-> r, minimumRate |-> m] :
        b \in MinimumBalances, r \in MinimumInterestRates, m \in MinimumRates}

InitMinimum == pc = "call" /\ call \in MinimumCalls /\ res = Pending

CallCalculateMinimumPayment ==
    /\ pc = "call"
    /\ call.op = "calculateMinimumPayment"
    /\ res' = CalculateMinimumPayment(Num(call.balance), Num(call.rate),
                                      Num(call.minimumRate))
    /\ pc' = "done"
    /\ UNCHANGED call

NextMinimum == CallCalculateMinimumPayment

SpecMinimum == InitMinimum /\ [][NextMinimum]_vars

\* A finished calculateMinimumPayment with balance >= 0, rate >= 0 and
\* 0 < minimumRate <= 100
MinimumDone ==
    /\ pc = "done"
    /\ call.op = "calculateMinimumPayment"
    /\ call.balance[1] = "dec" /\ call.balance[2] >= 0
    /\ call.rate[1] = "dec" /\ call.rate[2] >= 0
    /\ call.minimumRate[1] = "dec" /\ call.minimumRate[2] > 0
    /\ call.minimumRate[2] <= 100 * TenTo(call.minimumRate[3])

\* The integer n is within 1/2 of a / b, for integers a and b > 0
IsNearestInt(n, a, b) == 2 * (IF n * b < a THEN a - n * b ELSE n * b - a) <= b

\* The result's interestPortion is balance * rate / 1200 rounded to the cent
\* and its minimumPayment is the larger of balance * minimumRate / 100
\* rounded to the cent and interestPortion + 15
MinimumFigures ==
    /\ res.ok
    /\ IsCents(res.v.interestPortion)
    /\ IsCents(res.v.minimumPayment)
    /\ IsCents(res.v.principalPortion)
    /\ IsNearestCent(CentsOf(res.v.interestPortion),
                     <<ExactMul(FromInt(call.balance[2]), FromInt(call.rate[2])),
                       ExactMul(FromInt(TenTo(call.balance[3]) * TenTo(call.rate[3])),
                                FromInt(1200))>>)
    /\ LET floor == CentsOf(res.v.interestPortion) + 1500
           share == call.balance[2] * call.minimumRate[2]
           scale == TenTo(call.balance[3]) * TenTo(call.minimumRate[3])
           pay   == CentsOf(res.v.minimumPayment)
       IN  \/ pay = floor /\ 2 * share <= (2 * floor + 1) * scale
           \/ pay >= floor /\ IsNearestInt(pay, share, scale)

\* C17 as stated: for valid arguments minimumPayment is the larger of
\* balance * minimumRate / 100 and interestPortion + 15, interestPortion is
\* balance * rate / 1200, each rounded to the cent, and
\* principalPortion + interestPortion == minimumPayment.
C17_PortionsSumExactly ==
    MinimumDone =>
        /\ MinimumFigures
        /\ FEq(FAdd(res.v.principalPortion, res.v.interestPortion),
               res.v.minimumPayment)

\* C17, amended: as stated, with the principalPortion and the interestPortion
\* adding up to the minimumPayment when counted in cents.
C17_PortionsSumToTheCent ==
    MinimumDone =>
        /\ MinimumFigures
        /\ CentsOf(res.v.principalPortion) + CentsOf(res.v.interestPortion)
               = CentsOf(res.v.minimumPayment)

C17_Witness ==
    /\ MinimumDone
    /\ call.balance = Whole(5000)
    /\ call.rate = Whole(18)
    /\ call.minimumRate = Whole(2)
    /\ res.ok
    /\ res.v.minimumPayment = Num(Whole(100))
    /\ res.v.interestPortion = Num(Whole(75))
    /\ res.v.principalPortion = Num(Whole(25))

(***************************************************************************)
(* Payoff times: calculatePayoffTime.                                      *)
(***************************************************************************)
MaxPayoffCents == 7

MaxPayoffPaymentCents == 2

PayoffBalances ==
    {Cents(n) : n \in (-1)..MaxPayoffCents}
        \cup {Whole(100), Whole(200), Whole(5000), <<"nan", 0, 0>>}

PayoffPayments ==
    {Cents(n) : n \in (-1)..MaxPayoffPaymentCents}
        \cup {Cents(8), Whole(1), Whole(100), Cents(10050), Whole(200), Whole(201),
              <<"inf", 1, 0>>}

PayoffRates == {Whole(0), Whole(6), Whole(12), Whole(18), Whole(1200), Whole(-1)}

PayoffCalls ==
    {[op |-> "calculatePayoffTime", balance |-> b, payment |-> p, rate |-> r] :
        b \in PayoffBalances, p \in PayoffPayments, r \in PayoffRates}

InitPayoff == pc = "call" /\ call \in PayoffCalls /\ res = Pending

CallCalculatePayoffTime ==
    /\ pc = "call"
    /\ call.op = "calculatePayoffTime"
    /\ res' \in CalculatePayoffTime(Num(call.balance), Num(call.payment),
                                    Num(call.rate))
    /\ pc' = "done"
    /\ UNCHANGED call

NextPayoff == CallCalculatePayoffTime

SpecPayoff == InitPayoff /\ [][NextPayoff]_vars

\* A finished calculatePayoffTime with balance > 0, payment > 0 and rate >= 0
PayoffDone ==
    /\ pc = "done"
    /\ call.op = "calculatePayoffTime"
    /\ call.balance[1] = "dec" /\ call.balance[2] > 0
    /\ call.payment[1] = "dec" /\ call.payment[2] > 0
    /\ call.rate[1] = "dec" /\ call.rate[2] >= 0

\* balance * rate / 1200 and payment as naturals over one denominator
FirstInterest ==
    BMul(BFromInt(call.balance[2] * TenTo(call.payment[3])), BFromInt(call.rate[2]))

PaymentOverInterestDenominator ==
    BMul(BFromInt(call.payment[2] * TenTo(call.balance[3])),
         BFromInt(1200 * TenTo(call.rate[3])))

\* Whether the balance, accrued monthly at rate / 1200 and reduced by payment,
\* is at most 0 after n payments: n * payment >= balance at rate 0, and
\* (1 + rate / 1200)^n * (payment - balance * rate / 1200) >= payment otherwise
PaidOffAfter(n) ==
    IF call.rate[2] = 0
    THEN BCmp(BMul(BFromInt(n), BFromInt(call.payment[2] * TenTo(call.balance[3]))),
              BFromInt(call.balance[2] * TenTo(call.payment[3]))) >= 0
    ELSE BCmp(BPow(BFromInt(1200 * TenTo(call.rate[3]) + call.rate[2]), n,
                   BSub(PaymentOverInterestDenominator, FirstInterest)),
              BPow(BFromInt(1200 * TenTo(call.rate[3])), n,
                   PaymentOverInterestDenominator)) >= 0

\* C18: for balance > 0, payment > 0 and rate >= 0, calculatePayoffTime throws
\* exactly when payment <= balance * rate / 1200; otherwise monthsToPayoff is
\* a positive integer, the smallest number of payments after which the
\* balance is at most 0 (ceil(balance / payment) at rate 0).
C18_PayoffTimeIsSmallest ==
    PayoffDone =>
        IF BCmp(PaymentOverInterestDenominator, FirstInterest) <= 0 THEN res = Throw
        ELSE /\ res.ok
             /\ IsInteger(res.v.monthsToPayoff)
             /\ FGt(res.v.monthsToPayoff, Zero)
             /\ Top(res.v.monthsToPayoff) < 24
             /\ PaidOffAfter(ToInt(res.v.monthsToPayoff))
             /\ ~PaidOffAfter(ToInt(res.v.monthsToPayoff) - 1)

(***************************************************************************)
(* Proration: calculateProrationAmount.                                    *)
(***************************************************************************)
MaxProrationCents == 3

MaxDays == 7

ProrationAmounts ==
    {Cents(n) : n \in (-1)..MaxProrationCents}
        \cup {Whole(100), Cents(999), <<"dec", 175, 3>>, <<"dec", 1255, 3>>,
              <<"nan", 0, 0>>, <<"inf", 1, 0>>}

DaysUsed == {Whole(n) : n \in (-1)..MaxDays} \cup {Whole(15), Whole(30), <<"nan", 0, 0>>}

TotalDays == {Whole(n) : n \in 0..MaxDays} \cup {Whole(-1), Whole(30), <<"inf", 1, 0>>}

ProrationCalls ==
    {[op |-> "calculateProrationAmount", amount |-> a, daysUsed |-> d, totalDays |-> t] :
        a \in ProrationAmounts, d \in DaysUsed, t \in TotalDays}

InitProration == pc = "call" /\ call \in ProrationCalls /\ res = Pending

CallCalculateProrationAmount ==
    /\ pc = "call"
    /\ call.op = "calculateProrationAmount"
    /\ res' = CalculateProrationAmount(Num(call.amount), Num(call.daysUsed),
                                       Num(call.totalDays))
    /\ pc' = "done"
    /\ UNCHANGED call

NextProration == CallCalculateProrationAmount

SpecProration == InitProration /\ [][NextProration]_vars

ProrationDone == pc = "done" /\ call.op = "calculateProrationAmount"

\* amount < 0, daysUsed < 0, totalDays <= 0, daysUsed > totalDays or an
\* argument that is not finite; the days of the model are whole
BadProration ==
    \/ call.amount[1] # "dec" \/ call.daysUsed[1] # "dec" \/ call.totalDays[1] # "dec"
    \/ call.amount[2] < 0
    \/ call.daysUsed[2] < 0
    \/ call.totalDays[2] <= 0
    \/ call.daysUsed[2] > call.totalDays[2]

\* proratedAmount is a nearest cent of amount * daysUsed / totalDays and lies
\* between 0 and fullAmount, fullAmount is a nearest cent of amount, and
\* usagePercentage is daysUsed / totalDays * 100 rounded to 2 digits
ProrationFigures ==
    /\ res.ok
    /\ IsCents(res.v.proratedAmount)
    /\ IsCents(res.v.fullAmount)
    /\ IsCents(res.v.usagePercentage)
    /\ IsNearestCent(CentsOf(res.v.proratedAmount),
                     <<FromInt(call.amount[2] * call.daysUsed[2]),
                       FromInt(TenTo(call.amount[3]) * call.totalDays[2])>>)
    /\ IsNearestCent(CentsOf(res.v.fullAmount),
                     <<FromInt(call.amount[2]), FromInt(TenTo(call.amount[3]))>>)
    /\ IsNearestCent(CentsOf(res.v.usagePercentage),
                     <<FromInt(100 * call.daysUsed[2]), FromInt(call.totalDays[2])>>)
    /\ 0 <= CentsOf(res.v.proratedAmount)

\* C19: calculateProrationAmount throws when amount < 0, daysUsed < 0,
\* totalDays <= 0, daysUsed > totalDays or an argument is not finite; otherwise
\* proratedAmount is amount * daysUsed / totalDays to the nearest cent, lies
\* between 0 and the rounded full amount and equals it when
\* daysUsed == totalDays, and usagePercentage is daysUsed / totalDays * 100
\* rounded to 2 digits.
C19_ProrationWithinFullAmount ==
    ProrationDone =>
        IF BadProration THEN res = Throw
        ELSE /\ ProrationFigures
             /\ CentsOf(res.v.proratedAmount) <= CentsOf(res.v.fullAmount)
             /\ (call.daysUsed[2] = call.totalDays[2] =>
                    res.v.proratedAmount = res.v.fullAmount)

(***************************************************************************)
(* Upgrades: calculateUpgradeCredit.                                       *)
(***************************************************************************)
MaxPlanCents == 3

MaxDaysRemaining == 32

OldPlans ==
    {Plan(Cents(n)) : n \in (-1)..MaxPlanCents}
        \cup {Plan(Cents(999)), Plan(<<"nan", 0, 0>>), Undefined}

NewPlans ==
    {Plan(Cents(n)) : n \in 0..MaxPlanCents}
        \cup {Plan(Cents(1999)), Plan(<<"inf", 1, 0>>), Undefined}

DaysRemaining ==
    {Whole(n) : n \in (-1)..MaxDaysRemaining}
        \cup {<<"dec", 155, 1>>, <<"dec", 305, 1>>, <<"dec", 311, 1>>, <<"nan", 0, 0>>,
              <<"inf", 1, 0>>}

UpgradeCalls ==
    {[op |-> "calculateUpgradeCredit", oldPlan |-> o, newPlan |-> n, daysRemaining |-> d] :
        o \in OldPlans, n \in NewPlans, d \in DaysRemaining}

InitUpgrade == pc = "call" /\ call \in UpgradeCalls /\ res = Pending

\* The plan object of a call: its monthlyAmount is the number the literal denotes
PlanOf(plan) == IF plan = Undefined THEN Undefined ELSE Plan(Num(plan[2]))

CallCalculateUpgradeCredit ==
    /\ pc = "call"
    /\ call.op = "calculateUpgradeCredit"
    /\ res' = CalculateUpgradeCredit(PlanOf(call.oldPlan), PlanOf(call.newPlan),
                                     Num(call.daysRemaining))
    /\ pc' = "done"
    /\ UNCHANGED call

NextUpgrade == CallCalculateUpgradeCredit

SpecUpgrade == InitUpgrade /\ [][NextUpgrade]_vars

\* A finished calculateUpgradeCredit on two plans with finite monthly amounts
UpgradeDone ==
    /\ pc = "done"
    /\ call.op = "calculateUpgradeCredit"
    /\ call.oldPlan # Undefined /\ call.oldPlan[2][1] = "dec"
    /\ call.newPlan # Undefined /\ call.newPlan[2][1] = "dec"

\* daysRemaining is a finite number in [0, 31]
DaysInRange ==
    /\ call.daysRemaining[1] = "dec"
    /\ call.daysRemaining[2] >= 0
    /\ call.daysRemaining[2] <= 31 * TenTo(call.daysRemaining[3])

\* min(daysRemaining, 30), times 10^d for the d of the literal
EffectiveDays ==
    IF call.daysRemaining[2] > 30 * TenTo(call.daysRemaining[3])
    THEN 30 * TenTo(call.daysRemaining[3])
    ELSE call.daysRemaining[2]

\* Whether the amount x is a nearest cent of cents / 100 * min(daysRemaining, 30) / 30
IsProratedCents(x, cents) ==
    /\ IsCents(x)
    /\ IsNearestInt(CentsOf(x), cents * EffectiveDays, 30 * TenTo(call.daysRemaining[3]))

\* C20: calculateUpgradeCredit throws unless daysRemaining is a finite number
\* in [0, 31]; otherwise, with d = min(daysRemaining, 30), creditAmount and
\* oldPlanRemainingValue are old.monthlyAmount * d / 30 to the nearest cent,
\* newPlanProratedCost is new.monthlyAmount * d / 30 to the nearest cent, and
\* netAmountDue is the difference of the two unrounded values to the nearest
\* cent, within a cent of newPlanProratedCost - creditAmount; 31 days
\* remaining give what 30 give.
C20_UpgradeCreditProratesOverThirtyDays ==
    UpgradeDone =>
        IF ~DaysInRange THEN res = Throw
        ELSE /\ res.ok
             /\ res.v.creditAmount = res.v.oldPlanRemainingValue
             /\ IsProratedCents(res.v.creditAmount, LitCents(call.oldPlan[2]))
             /\ IsProratedCents(res.v.newPlanProratedCost, LitCents(call.newPlan[2]))
             /\ IsProratedCents(res.v.netAmountDue,
                                LitCents(call.newPlan[2]) - LitCents(call.oldPlan[2]))
             /\ CentsOf(res.v.netAmountDue)
                    - (CentsOf(res.v.newPlanProratedCost) - CentsOf(res.v.creditAmount))
                        \in {-1, 0, 1}
             /\ (call.daysRemaining = Whole(31) =>
                    res = CalculateUpgradeCredit(PlanOf(call.oldPlan),
                                                 PlanOf(call.newPlan), Thirty))

\* 9.99 to 19.99 with 15 days remaining: a credit of 5, a cost of 9.99 and 5
\* due, a cent more than 9.99 - 5
C20_Witness ==
    /\ UpgradeDone
    /\ call.oldPlan = Plan(Cents(999))
    /\ call.newPlan = Plan(Cents(1999))
    /\ call.daysRemaining = Whole(15)
    /\ res.ok
    /\ res.v.creditAmount = Num(Whole(5))
    /\ res.v.newPlanProratedCost = Num(Cents(999))
    /\ res.v.netAmountDue = Num(Whole(5))

(***************************************************************************)
(* Conversions: convertCurrency, convertWithFee and bulkConvert, each made *)
(* at some reading of the clock, and made again later with the same        *)
(* arguments.                                                              *)
(***************************************************************************)
MaxConversionCents == 2

MaxClock == 1

MaxAmounts == 2

ConversionAmounts ==
    {Cents(n) : n \in 0..MaxConversionCents}
        \cup {Whole(100), <<"pow2", 1, 1023>>, <<"nan", 0, 0>>, <<"inf", 1, 0>>}

ConversionCurrencies ==
    {Str(<<"U", "S", "D">>), Str(<<"u", "s", "d">>), Str(<<"E", "U", "R">>),
     Str(<<"C", "H", "F">>), Str(<<"X", "X", "X">>)}

CustomRates ==
    {Undefined, <<"dec", 85, 2>>, Whole(0), Whole(460), <<"nan", 0, 0>>, <<"inf", 1, 0>>}

FeePercentages == {Whole(0), <<"dec", 25, 1>>, Whole(100), Whole(101), <<"nan", 0, 0>>}

AmountLists ==
    UNION {[1..n -> {Cents(1), Whole(100), <<"inf", -1, 0>>}] : n \in 0..MaxAmounts}

ConversionCalls ==
    {[op |-> "convertCurrency", amount |-> a, fromCurrency |-> f, toCurrency |-> t,
      rate |-> r, now |-> n, earlier |-> Pending] :
        a \in ConversionAmounts, f \in ConversionCurrencies,
        t \in ConversionCurrencies, r \in CustomRates, n \in 0..MaxClock}
    \cup
    {[op |-> "convertWithFee", amount |-> a, rate |-> r, feePercentage |-> p,
      now |-> n, earlier |-> Pending] :
        a \in ConversionAmounts, r \in CustomRates \ {Undefined},
        p \in FeePercentages, n \in 0..MaxClock}
    \cup
    {[op |-> "bulkConvert", amounts |-> as, fromCurrency |-> f, toCurrency |-> t,
      rate |-> r, now |-> n, earlier |-> Pending] :
        as \in AmountLists, f \in ConversionCurrencies,
        t \in {Str(<<"E", "U", "R">>), Str(<<"X", "X", "X">>)},
        r \in CustomRates, n \in 0..MaxClock}

InitConversion == pc = "call" /\ call \in ConversionCalls /\ res = Pending

\* The optional number a literal or its absence denotes
OptionalNum(l) == IF l = Undefined THEN NotGiven ELSE Num(l)

\* The call c made when the clock reads c.now
Converting(c) ==
    CASE c.op = "convertCurrency" ->
             ConvertCurrency(Num(c.amount), c.fromCurrency, c.toCurrency,
                             OptionalNum(c.rate), c.now)
      [] c.op = "convertWithFee" ->
             ConvertWithFee(Num(c.amount), Num(c.rate), Num(c.feePercentage), c.now)
      [] c.op = "bulkConvert" ->
             BulkConvert([i \in 1..Len(c.amounts) |-> Num(c.amounts[i])],
                         c.fromCurrency, c.toCurrency, OptionalNum(c.rate), c.now)

CallConvertCurrency ==
    /\ pc = "call"
    /\ call.op = "convertCurrency"
    /\ res' = Converting(call)
    /\ pc' = "done"
    /\ UNCHANGED call

CallConvertWithFee ==
    /\ pc = "call"
    /\ call.op = "convertWithFee"
    /\ res' = Converting(call)
    /\ pc' = "done"
    /\ UNCHANGED call

CallBulkConvert ==
    /\ pc = "call"
    /\ call.op = "bulkConvert"
    /\ res' = Converting(call)
    /\ pc' = "done"
    /\ UNCHANGED call

\* The same call is made once more, now or later; what the first call
\* returned is kept in earlier
ConvertAgain ==
    /\ pc = "done"
    /\ \E later \in call.now..MaxClock :
          /\ call' = [call EXCEPT !.now = later, !.earlier = res]
          /\ res' = Converting(call')
    /\ pc' = "again"

NextConversion ==
    \/ CallConvertCurrency
    \/ CallConvertWithFee
    \/ CallBulkConvert
    \/ ConvertAgain

SpecConversion == InitConversion /\ [][NextConversion]_vars

\* The numeric arguments of the call, as literals
NumericArguments ==
    CASE call.op = "convertCurrency" -> {call.amount, call.rate}
      [] call.op = "convertWithFee" -> {call.amount, call.rate, call.feePercentage}
      [] call.op = "bulkConvert" ->
             {call.amounts[i] : i \in 1..Len(call.amounts)} \cup {call.rate}

\* The numbers of the result
ResultNumbers ==
    CASE call.op = "convertCurrency" -> {res.v.convertedAmount, res.v.exchangeRate}
      [] call.op = "convertWithFee" ->
             {res.v.convertedAmount, res.v.exchangeRate, res.v.feeAmount,
              res.v.amountAfterFee}
      [] call.op = "bulkConvert" ->
             {res.v.totalOriginalAmount, res.v.totalConvertedAmount, res.v.exchangeRate}
                 \cup {res.v.conversions[i].convertedAmount :
                           i \in 1..Len(res.v.conversions)}

\* C21: a call with a numeric argument, required or optional, that is NaN or
\* infinite throws MonieUtilsError, and no result holds a number that is not
\* finite.
C21_NonFiniteArgumentsAreRejected ==
    pc = "done" =>
        /\ ((\E l \in NumericArguments : l[1] \in {"nan", "inf"}) => res = Throw)
        /\ (res.ok => \A x \in ResultNumbers : IsFinite(x))

\* C22: two calls with equal arguments return equal results, or both throw,
\* whatever the time of each call.
C22_EqualCallsGiveEqualResults ==
    pc = "again" => res = call.earlier

(***************************************************************************)
(* Payment dates: calculateNextPaymentDate.                                *)
(***************************************************************************)
MaxYear == 2024

StartDates ==
    UNION {{Date(y, m, d) : d \in 1..DaysInMonth(y, m)} :
              y \in (MaxYear - 1)..MaxYear, m \in 0..11} \cup {InvalidDate}

Frequencies ==
    {"daily", "weekly", "bi-weekly", "monthly", "quarterly", "semi-annually",
     "annually", "yearly"}

DateCalls ==
    {[op |-> "calculateNextPaymentDate", startDate |-> d, frequency |-> f] :
        d \in StartDates, f \in Frequencies}

InitDate == pc = "call" /\ call \in DateCalls /\ res = Pending

\* The function works on a copy, new Date(startDate): the caller's date
\* object is among what the call leaves as it was
CallCalculateNextPaymentDate ==
    /\ pc = "call"
    /\ call.op = "calculateNextPaymentDate"
    /\ res' = CalculateNextPaymentDate(call.startDate, call.frequency)
    /\ pc' = "done"
    /\ UNCHANGED call

NextDate == CallCalculateNextPaymentDate

SpecDate == InitDate /\ [][NextDate]_vars

\* The number of the days from 1 January of year 2000 to the date
DaysBeforeMonth(y, m) ==
    <<0, 31, 59, 90, 120, 151, 181, 212, 243, 273, 304, 334>>[m + 1]
        + (IF m > 1 /\ IsLeapYear(y) THEN 1 ELSE 0)

DayNumber(date) ==
    365 * (date[2] - 2000) + ((date[2] - 1997) \div 4) + DaysBeforeMonth(date[2], date[3])
        + date[4]

\* The number of the months from January of year 0 to the month of the date
MonthNumber(date) == 12 * date[2] + date[3]

\* C23: for a valid start date calculateNextPaymentDate returns the same day
\* of the month 1, 3, 6 or 12 months later for 'monthly', 'quarterly',
\* 'semi-annually', 'annually' and the day 1, 7 or 14 days later for 'daily',
\* 'weekly', 'bi-weekly', the start date staying as it was; an invalid
\* date or an unknown frequency throws MonieUtilsError.
C23_NextDateKeepsDayOfMonth ==
    pc = "done" /\ call.op = "calculateNextPaymentDate" =>
        IF call.startDate = InvalidDate \/ call.frequency = "yearly" THEN res = Throw
        ELSE /\ res.ok
             /\ call.frequency \in {"daily", "weekly", "bi-weekly"} =>
                    DayNumber(res.v) - DayNumber(call.startDate)
                        = (CASE call.frequency = "daily" -> 1
                             [] call.frequency = "weekly" -> 7
                             [] OTHER -> 14)
             /\ call.frequency \in {"monthly", "quarterly", "semi-annually", "annually"} =>
                    /\ res.v[4] = call.startDate[4]
                    /\ MonthNumber(res.v) - MonthNumber(call.startDate)
                           = (CASE call.frequency = "monthly" -> 1
                                [] call.frequency = "quarterly" -> 3
                                [] call.frequency = "semi-annually" -> 6
                                [] OTHER -> 12)

(***************************************************************************)
(* Account numbers: formatAccountNumber.                                   *)
(***************************************************************************)
MaxAccountLen == 4
MaxShown == 2
MaxGroupSize == 2

AccountChars == {"1", "2", " ", "x"}

AccountNumbers ==
    {Str(chars) : chars \in UNION {[1..n -> AccountChars] : n \in 0..MaxAccountLen}}
        \cup {Undefined}

\* No options at all, and every choice of all six of them
AccountOptions ==
    {<<>>} \cup
    [maskChar : {<<"*">>, <<"#">>}, showFirst : (-1)..MaxShown, showLast : (-1)..MaxShown,
     applyMask : BOOLEAN, separator : {<<" ">>, <<"-">>, <<>>},
     groupSize : 0..MaxGroupSize]

AccountCalls ==
    {[op |-> "formatAccountNumber", accountNumber |-> a, options |-> o] :
        a \in AccountNumbers, o \in AccountOptions}

InitAccount == pc = "call" /\ call \in AccountCalls /\ res = Pending

CallFormatAccountNumber ==
    /\ pc = "call"
    /\ call.op = "formatAccountNumber"
    /\ res' = FormatAccountNumber(call.accountNumber, call.options)
    /\ pc' = "done"
    /\ UNCHANGED call

NextAccount == CallFormatAccountNumber

SpecAccount == InitAccount /\ [][NextAccount]_vars

AccountDone == pc = "done" /\ call.op = "formatAccountNumber"

\* The digits of the account number: its characters other than whitespace
AccountDigits == SelectSeq(call.accountNumber[2], LAMBDA c : c # " ")

\* The options of the call, the defaults standing in for those not given
Given ==
    IF call.options = <<>>
    THEN [maskChar |-> <<"*">>, showFirst |-> 4, showLast |-> 4, applyMask |-> TRUE,
          separator |-> <<" ">>, groupSize |-> 4]
    ELSE call.options

BadAccountCall ==
    \/ call.accountNumber = Undefined
    \/ AccountDigits = <<>>
    \/ \E i \in 1..Len(AccountDigits) : AccountDigits[i] \notin Digits
    \/ Given.showFirst < 0 \/ Given.showLast < 0 \/ Given.groupSize <= 0

MaskApplies ==
    Given.applyMask /\ Len(AccountDigits) > Given.showFirst + Given.showLast

\* The characters the result is to show, position by position
Shown ==
    [i \in 1..Len(AccountDigits) |->
        IF MaskApplies /\ i > Given.showFirst /\ i <= Len(AccountDigits) - Given.showLast
        THEN Given.maskChar[1] ELSE AccountDigits[i]]

\* The characters chars cut into groups of size, left to right, with the
\* separator between one group and the next
RECURSIVE Grouped(_, _, _)
Grouped(chars, size, separator) ==
    IF Len(chars) <= size THEN chars
    ELSE SubSeq(chars, 1, size) \o separator
            \o Grouped(SubSeq(chars, size + 1, Len(chars)), size, separator)

MaxPlans == 3

\* The plans of the calls, their numbers as literals: the two of the
\* repository's test, a plan of no score but its features, two plans of the
\* full score, one of them by a discount of half a cent's worth, a plan
\* that costs the same as another with fewer features, and a plan without id
PlanLiterals ==
    {SubscriptionPlan(Str(<<"b">>), Str(<<"B">>), Cents(999), Undefined, Undefined,
                      Array(<<"f1", "f2">>)),
     SubscriptionPlan(Str(<<"p">>), Str(<<"P">>), Cents(1999), Cents(20), Whole(10),
                      Array(<<"f1", "f2", "f3", "f4">>)),
     SubscriptionPlan(Str(<<"t">>), Str(<<"T">>), Whole(60), Undefined, Whole(3),
                      Array(<<"f1", "f2">>)),
     SubscriptionPlan(Str(<<"f">>), Str(<<"F">>), Whole(0), Undefined, Undefined, Undefined),
     SubscriptionPlan(Str(<<"h">>), Str(<<"H">>), Cents(5), Cents(50), Whole(0),
                      Array(<<"f1">>)),
     SubscriptionPlan(Str(<<"q">>), Str(<<"Q">>), Cents(1999), Cents(20), Undefined,
                      Array(<<"f1", "f2">>)),
     SubscriptionPlan(Str(<<>>), Str(<<"N">>), Cents(999), Undefined, Undefined, Undefined)}

PlanLists == {Array(ps) : ps \in UNION {[1..n -> PlanLiterals] : n \in 0..MaxPlans}}

PlanCalls ==
    {[op |-> "compareSubscriptionPlans", plans |-> ps] : ps \in PlanLists \cup {Undefined}}

InitPlans == pc = "call" /\ call \in PlanCalls /\ res = Pending

\* The plan objects of the plans of a call
PlansOf(plans) ==
    IF plans = Undefined THEN Undefined
    ELSE Array([i \in 1..Len(plans[2]) |->
                   SubscriptionPlan(plans[2][i].id, plans[2][i].name,
                                    Num(plans[2][i].monthlyAmount),
                                    OptionalNum(plans[2][i].annualDiscount),
                                    OptionalNum(plans[2][i].maxUsers),
                                    plans[2][i].features)])

CallCompareSubscriptionPlans ==
    /\ pc = "call"
    /\ call.op = "compareSubscriptionPlans"
    /\ res' = CompareSubscriptionPlans(PlansOf(call.plans))
    /\ pc' = "done"
    /\ UNCHANGED call

NextPlans == CallCompareSubscriptionPlans

SpecPlans == InitPlans /\ [][NextPlans]_vars

\* A finished comparison of two or more plans that all have an id
PlansDone ==
    /\ pc = "done" /\ call.op = "compareSubscriptionPlans"
    /\ call.plans # Undefined
    /\ Len(call.plans[2]) >= 2
    /\ \A i \in 1..Len(call.plans[2]) : call.plans[2][i].id # Str(<<>>)

\* monthlyAmount * (1 - annualDiscount) of the plan literal p, in 1/10000
DiscountedTenThousandths(p) ==
    LitCents(p.monthlyAmount)
        * (100 - (IF p.annualDiscount = Undefined THEN 0 ELSE LitCents(p.annualDiscount)))

\* The analysis a is that of the plan literal p
AnalysisOf(a, p) ==
    /\ a.plan.id = p.id
    /\ IsCents(a.effectiveMonthlyRate)
    /\ IsNearestInt(CentsOf(a.effectiveMonthlyRate), DiscountedTenThousandths(p), 100)
    /\ IsCents(a.annualCost)
    /\ IsNearestInt(CentsOf(a.annualCost), 12 * DiscountedTenThousandths(p), 100)
    /\ FGe(a.valueScore, Zero)
    /\ FLe(a.valueScore, Hundred)

\* The first of the analyses whose valueScore none of them exceeds
FirstBest(analyses) ==
    analyses[CHOOSE i \in 1..Len(analyses) :
                 /\ \A j \in 1..Len(analyses) :
                        FLe(analyses[j].valueScore, analyses[i].valueScore)
                 /\ \A j \in 1..(i - 1) :
                        FLt(analyses[j].valueScore, analyses[i].valueScore)]

\* C25: compareSubscriptionPlans throws for an empty list and for a single
\* plan; for two or more valid plans it returns one analysis per plan in the
\* order of the input, with effectiveMonthlyRate = monthlyAmount * (1 -
\* annualDiscount) and annualCost = 12 times that, each to the nearest cent,
\* a valueScore in [0, 100], as recommendedPlan the first of the analyses of
\* the largest valueScore, and maxSavings = the largest annualCost - the
\* smallest >= 0.
C25_PlansAreComparedInOrder ==
    pc = "done" /\ call.op = "compareSubscriptionPlans" =>
        /\ call.plans # Undefined /\ Len(call.plans[2]) <= 1 => res = Throw
        /\ PlansDone =>
              /\ res.ok
              /\ Len(res.v.plans) = Len(call.plans[2])
              /\ \A i \in 1..Len(call.plans[2]) : AnalysisOf(res.v.plans[i], call.plans[2][i])
              /\ res.v.recommendedPlan = FirstBest(res.v.plans)
              /\ IsCents(res.v.maxSavings)
              /\ CentsOf(res.v.maxSavings) >= 0
              /\ \E i, j \in 1..Len(call.plans[2]) :
                     /\ \A k \in 1..Len(call.plans[2]) :
                            /\ FGe(res.v.plans[i].annualCost, res.v.plans[k].annualCost)
                            /\ FLe(res.v.plans[j].annualCost, res.v.plans[k].annualCost)
                     /\ CentsOf(res.v.maxSavings)
                           = CentsOf(res.v.plans[i].annualCost)
                               - CentsOf(res.v.plans[j].annualCost)

\* Three plans of which the second and the third have the largest
\* valueScore: the second is recommended
C25_Witness ==
    /\ PlansDone /\ res.ok /\ Len(call.plans[2]) = 3
    /\ FLt(res.v.plans[1].valueScore, res.v.plans[2].valueScore)
    /\ res.v.plans[3].valueScore = res.v.plans[2].valueScore
    /\ res.v.plans[3] # res.v.plans[2]
    /\ res.v.recommendedPlan = res.v.plans[2]
    /\ CentsOf(res.v.maxSavings) > 0

(***************************************************************************)
(* The entries of generateAmortizationSchedule, on valid and on invalid    *)
(* arguments.                                                              *)
(***************************************************************************)
SchedulePrincipals ==
    Principals \cup {Whole(0), Cents(-1), <<"nan", 0, 0>>, <<"inf", 1, 0>>}

ScheduleRates == Rates \cup {Whole(-1), <<"nan", 0, 0>>, <<"inf", 1, 0>>}

ScheduleTerms ==
    {Whole(t) : t \in 0..MaxTerm} \cup {<<"dec", 25, 1>>, Whole(-1), <<"nan", 0, 0>>}

ScheduleCalls ==
    {[op |-> "generateAmortizationSchedule", principal |-> p, rate |-> r,
      termMonths |-> t] :
        p \in SchedulePrincipals, r \in ScheduleRates, t \in ScheduleTerms}

InitSchedule == pc = "call" /\ call \in ScheduleCalls /\ res = Pending

SpecSchedule == InitSchedule /\ [][NextLoan]_vars

ScheduleDone == pc = "done" /\ call.op = "generateAmortizationSchedule"

\* A positive principal, a rate >= 0 and a positive whole number of months
ScheduleArgumentsOk ==
    /\ call.principal[1] = "dec" /\ call.principal[2] > 0
    /\ call.rate[1] = "dec" /\ call.rate[2] >= 0
    /\ IsPosIntLit(call.termMonths)

\* The balance carried into period i: the principal, or what the entry before
\* left
Carried(i) ==
    IF i = 1 THEN Num(call.principal) ELSE res.v.payments[i - 1].remainingBalance

\* The entry of period i of n: its interest is the carried balance times
\* rate / 1200 to the nearest cent, its payment the sum of its principal and
\* its interest, which before the last period is the monthly payment; the
\* principal of the last period is the carried balance
EntryOk(i, n) ==
    Let(res.v.payments[i], LAMBDA entry :
        /\ entry.paymentNumber = i
        /\ IsCents(Carried(i))
        /\ IsCents(entry.interestAmount)
        /\ IsNearestInt(CentsOf(entry.interestAmount),
                        CentsOf(Carried(i)) * call.rate[2], 1200 * TenTo(call.rate[3]))
        /\ IsCents(entry.paymentAmount)
        /\ IsCents(entry.principalAmount)
        /\ CentsOf(entry.paymentAmount)
              = CentsOf(entry.principalAmount) + CentsOf(entry.interestAmount)
        /\ i < n => entry.paymentAmount = res.v.summary.monthlyPayment
        /\ i = n => entry.principalAmount = Carried(i))

MaxWalkTerm == 4

WalkPrincipals ==
    {Cents(n) : n \in 1..MaxPrincipalCents} \cup {Whole(100), Whole(1000), Cents(191862)}

\* A loan at rate 0 and a number of payments made, from 1 to its term
WalkCalls ==
    UNION {{[op |-> "walk", principal |-> p, termMonths |-> Whole(t), paymentsMade |-> Whole(k),
             schedule |-> Pending] :
                k \in 1..t} : p \in WalkPrincipals, t \in 1..MaxWalkTerm}

InitWalk == pc = "call" /\ call \in WalkCalls /\ res = Pending

\* generateAmortizationSchedule(principal, 0, termMonths), the schedule kept
WalkSchedule ==
    /\ pc = "call"
    /\ call.op = "walk"
    /\ call' = [call EXCEPT !.schedule =
                    GenerateAmortizationSchedule(Num(call.principal), Zero,
                                                 Num(call.termMonths))]
    /\ pc' = "walked"
    /\ UNCHANGED res

\* calculateLoanBalance(principal, 0, termMonths, paymentsMade)
ProjectBalance ==
    /\ pc = "walked"
    /\ res' = CalculateLoanBalance(Num(call.principal), Zero, Num(call.termMonths),
                                   Num(call.paymentsMade))
    /\ pc' = "done"
    /\ UNCHANGED call

NextWalk == WalkSchedule \/ ProjectBalance

SpecWalk == InitWalk /\ [][NextWalk]_vars

\* The entry of the schedule for the period of the last payment made
WalkedEntry == call.schedule.v.payments[LitInt(call.paymentsMade)]

\* C27: for a loan at rate 0 and every k from 1 to termMonths the
\* remainingBalance of calculateLoanBalance(principal, 0, termMonths, k) is
\* that of the k-th entry of generateAmortizationSchedule(principal, 0,
\* termMonths), both 0 at k = termMonths, and principalPaid +
\* remainingBalance is the principal.
C27_ProjectionAgreesWithSchedule ==
    pc = "done" /\ call.op = "walk" =>
        /\ res.ok /\ call.schedule.ok
        /\ res.v.remainingBalance = WalkedEntry.remainingBalance
        /\ call.paymentsMade = call.termMonths =>
               res.v.remainingBalance = Zero /\ WalkedEntry.remainingBalance = Zero
        /\ CentsOf(res.v.principalPaid) + CentsOf(res.v.remainingBalance)
              = LitCents(call.principal)

(***************************************************************************)
(* The two bankers' roundings: roundMoney in mode 'bankers' and            *)
(* roundToBankersRounding in mode 'half-even'.                             *)
(***************************************************************************)
\* A finished roundMoney(x, p, 'bankers')
BankersDone == pc = "done" /\ call.op = "roundMoney" /\ call.mode = "bankers"

\* The returned amount in units of 10^-p, for the p of the call
ResultUnits == ToInt(MathRound(FMul(res.v, FromInt(TenTo(LitInt(call.precision))))))

\* C28: roundMoney(x, p, 'bankers') and roundToBankersRounding(x, p,
\* 'half-even') return the same value for every finite x and every p >= 0,
\* a multiple of 10^-p that is not more than half of 10^-p away from x.
C28_BankersRoundingsAgree ==
    BankersDone =>
        /\ res.ok
        /\ res = RoundToBankersRounding(Num(call.amount), Num(call.precision), "half-even")
        /\ res.v = Dec(ResultUnits, LitInt(call.precision))
        /\ IsNearestInt(ResultUnits, call.amount[2] * TenTo(LitInt(call.precision)),
                        TenTo(call.amount[3]))

(***************************************************************************)
(* The totals of calculatePayoffTime.                                      *)
(***************************************************************************)
\* The totals of the result at hand: what was paid is the payment times the
\* months to the nearest cent and the balance plus the interest paid, the
\* years are the months over 12 to two digits, the interest is not negative
PayoffTotals ==
    /\ IsCents(res.v.totalAmountPaid)
    /\ IsCents(res.v.totalInterestPaid)
    /\ IsCents(res.v.yearsToPayoff)
    /\ IsNearestInt(CentsOf(res.v.totalAmountPaid),
                    call.payment[2] * ToInt(res.v.monthsToPayoff) * 100,
                    TenTo(call.payment[3]))
    /\ IsNearestInt(CentsOf(res.v.yearsToPayoff), 100 * ToInt(res.v.monthsToPayoff), 12)
    /\ FGe(res.v.totalInterestPaid, Zero)
    /\ CentsOf(res.v.totalAmountPaid)
          = LitCents(call.balance) + CentsOf(res.v.totalInterestPaid)

\* C29: every result of calculatePayoffTime, at rate 0 as at a positive
\* rate, has totalAmountPaid = balance + totalInterestPaid, totalAmountPaid
\* = payment * monthsToPayoff to the nearest cent, yearsToPayoff =
\* monthsToPayoff / 12 rounded to two digits and totalInterestPaid >= 0.
C29_PayoffTotalsAddUp ==
    PayoffDone /\ res.ok => PayoffTotals

(***************************************************************************)
(* Recurring payments: calculateAnnualEquivalent and                       *)
(* calculateTotalRecurringCost of one amount and frequency.                *)
(***************************************************************************)
MaxRecurringCents == 3
MaxDuration == 13

RecurringAmounts ==
    {Cents(n) : n \in (-1)..MaxRecurringCents}
        \cup {Cents(999), Whole(300), <<"dec", 5, 3>>, <<"nan", 0, 0>>, <<"inf", 1, 0>>}

Durations ==
    {Whole(n) : n \in (-1)..MaxDuration}
        \cup {Whole(24), <<"dec", 15, 1>>, <<"dec", 5, 1>>, <<"nan", 0, 0>>}

RecurringCalls ==
    {[op |-> "recurring", amount |-> a, frequency |-> f, duration |-> d,
      annual |-> Pending] :
        a \in RecurringAmounts, f \in Frequencies, d \in Durations}

InitRecurring == pc = "call" /\ call \in RecurringCalls /\ res = Pending

\* calculateAnnualEquivalent(amount, frequency), the result kept
CallCalculateAnnualEquivalent ==
    /\ pc = "call"
    /\ call.op = "recurring"
    /\ call' = [call EXCEPT !.annual =
                    CalculateAnnualEquivalent(Num(call.amount), call.frequency)]
    /\ pc' = "annual"
    /\ UNCHANGED res

\* calculateTotalRecurringCost(amount, frequency, duration)
CallCalculateTotalRecurringCost ==
    /\ pc = "annual"
    /\ res' = CalculateTotalRecurringCost(Num(call.amount), call.frequency,
                                          Num(call.duration))
    /\ pc' = "done"
    /\ UNCHANGED call

NextRecurring == CallCalculateAnnualEquivalent \/ CallCalculateTotalRecurringCost

SpecRecurring == InitRecurring /\ [][NextRecurring]_vars

RecurringDone == pc = "done" /\ call.op = "recurring"

\* The payments per month of the frequency of the call, as <<numerator,
\* denominator>>
PaymentsPerMonth ==
    CASE call.frequency = "daily" -> <<3044, 100>>
      [] call.frequency = "weekly" -> <<433, 100>>
      [] call.frequency = "bi-weekly" -> <<217, 100>>
      [] call.frequency = "monthly" -> <<1, 1>>
      [] call.frequency = "quarterly" -> <<1, 3>>
      [] call.frequency = "semi-annually" -> <<1, 6>>
      [] call.frequency = "annually" -> <<1, 12>>

\* An amount >= 0, and one of the seven frequencies
AmountAndFrequencyOk ==
    call.amount[1] = "dec" /\ call.amount[2] >= 0 /\ call.frequency # "yearly"

\* The result's numberOfPayments is the duration times the payments per
\* month to the nearest integer, and its totalCost the amount times the
\* numberOfPayments to the nearest cent
RecurringFigures ==
    /\ IsInteger(res.v.numberOfPayments)
    /\ IsNearestInt(ToInt(res.v.numberOfPayments),
                    call.duration[2] * PaymentsPerMonth[1],
                    TenTo(call.duration[3]) * PaymentsPerMonth[2])
    /\ IsCents(res.v.totalCost)
    /\ IsNearestInt(CentsOf(res.v.totalCost),
                    call.amount[2] * 100 * ToInt(res.v.numberOfPayments),
                    TenTo(call.amount[3]))

====
